---- MODULE Spec2Model ----
(***************************************************************************)
(* SORCERER (gregipp/sorcerer): the Web Audio synthesis engine and its     *)
(* gesture-driven control layer.                                           *)
(*                                                                         *)
(* The repository holds three revisions of the AudioEngine singleton:      *)
(*   "part_005"      src/unnamed/part_005                                  *)
(*   "audio_engine"  src/js/audio_engine.js                                *)
(*   "main"          src/js/main.js, lines 233-540                         *)
(* The variable `variant` says which revision a behaviour runs; it is      *)
(* chosen in Init and never changes.  Where the revisions agree one        *)
(* definition models all three; where they differ there is one definition  *)
(* per revision, suffixed _part_005, _audio_engine or _main.               *)
(*                                                                         *)
(* Units.  Time is counted in ticks of 100 ms (0.1 s), and every stored    *)
(* time is relative to the current instant: audioCtx.currentTime and       *)
(* Date.now() are the origin 0, a time in the past is negative, and the    *)
(* action Tick moves every stored time one tick into the past.  Hand       *)
(* coordinates and every other value of [0,1] are counted in 1/CoordScale. *)
(* The envelope gain is counted in 1/GainOne.  Optional JavaScript values  *)
(* are sequences: <<>> is undefined/null, <<v>> is v.                      *)
(*                                                                         *)
(* HandInput likewise exists in three revisions:                           *)
(*   "part_002"      src/unnamed/part_002                                  *)
(*   "hand_input_1"  src/js/hand_input.js, lines 1-210                     *)
(*   "hand_input_2"  src/js/hand_input.js, lines 212-371                   *)
(* hand.rev says which one runs.  Landmark coordinates are counted in      *)
(* 1/CoordScale of the frame.                                              *)
(*                                                                         *)
(* PatchManager exists in two revisions:                                   *)
(*   "patch_manager_1"  src/js/patch_manager.js, lines 1-121               *)
(*   "patch_manager_2"  src/js/patch_manager.js, lines 123-431             *)
(* manager.rev says which one runs.                                        *)
(***************************************************************************)
EXTENDS Integers, Sequences, FiniteSets, TLC

VARIABLES
  variant,   \* which revision of the AudioEngine runs
  engine,    \* the AudioEngine singleton (its fields)
  stale,     \* oscillator nodes dropped from the bank while still running or modulated
  tornDown,  \* cleanup has run on an initialised engine and no init has followed
  last,      \* the last step that had an effect, and every envelope call: its
             \* name, whether it rebuilt, whether it threw, what it swallowed,
             \* and the build state it started from
  hand,      \* the HandInput singleton: its revision, its gesture fields, the
             \* frame it processed last
  probe,     \* a landmark array handed to _isFist, and the verdict
  manager,   \* the PatchManager singleton: its revision, its patch list, the
             \* selected index, and the last alert the patch loader raised
  llm        \* one call of LLMService.generatePatch: where it stands, the
             \* responses it has received, the waits it has made, its outcome

vars == <<variant, engine, stale, tornDown, last, hand, probe, manager, llm>>

(***************************************************************************)
(* Bounds of the model.                                                    *)
(***************************************************************************)
MaxOvertones == 2
MaxRamp == 2
HandSteps == 1
MaxStale == 1
ArpAgeCap == 3
GestureAgeCap == 6
PollsPerTick == 2
PollSpan == 10
ControlSteps == 4
MaxPatches == 3

(***************************************************************************)
(* Scales.                                                                 *)
(***************************************************************************)
GainOne == 4
CoordScale == 60

Variants == {"part_005", "audio_engine", "main"}

Undefined == <<>>
Some(v) == <<v>>
Has(o) == o # <<>>
Val(o) == o[1]

Min(a, b) == IF a <= b THEN a ELSE b
Max(a, b) == IF a >= b THEN a ELSE b

(***************************************************************************)
(* AppConfig (config.js).  attackTime 0.5 s and releaseTime 0.8 s are 5    *)
(* and 8 ticks; reverbMix 0.3 is 18/60; baseFrequency is kept symbolic     *)
(* (frequencies are stored as semitone offsets from it).                   *)
(***************************************************************************)
audioDefaults ==
  [oscillatorType |-> "sine", attackTime |-> 5, releaseTime |-> 8,
   overtoneCount |-> 7, lfoMinFreq |-> 1, lfoMaxFreqMultiplier |-> 4,
   lfoMaxDepthMultiplier |-> 20, filterCutoff |-> 20000, filterQ |-> 1,
   reverbMix |-> 18, octaveOffset |-> 0]

arpDefaults ==
  [interval |-> 2, pattern |-> <<-12, -8, -5, 0, 4, 7, 12, 7, 4, 0, -5, -8>>]

startOctave == 2
endOctave == 4

(***************************************************************************)
(* Object spread {...a, ...b}: the fields of b override those of a.        *)
(***************************************************************************)
Spread(a, b) ==
  [k \in (DOMAIN a) \cup (DOMAIN b) |-> IF k \in DOMAIN b THEN b[k] ELSE a[k]]

(***************************************************************************)
(* The patches handed to the engine are those PatchManager.validatePatch   *)
(* accepts: oscillatorType one of the four waveforms, overtoneCount in     *)
(* 1..20, attackTime and releaseTime given; filterCutoff, octaveOffset and *)
(* arpeggiator optional.                                                   *)
(***************************************************************************)
validOscTypes == {"sine", "square", "sawtooth", "triangle"}

OscTypes == {"sine", "sawtooth"}

AudioOf(type, count, attack, release) ==
  [oscillatorType |-> type, overtoneCount |-> count,
   attackTime |-> attack, releaseTime |-> release]

\* Every harmonic count with the first kind, the largest also with the other.
PlainShapes ==
  {c \in OscTypes \X (0..MaxOvertones) : c[1] = "sine" \/ c[2] = MaxOvertones}

PlainPatches ==
  { [audio |-> AudioOf(c[1], c[2], MaxRamp, MaxRamp + 1), octaveOffset |-> Undefined,
     arpeggiator |-> Undefined] : c \in PlainShapes }

FilterPatches ==
  { [audio |-> Spread(AudioOf("sine", 1, 1, 1), [filterCutoff |-> 800, filterQ |-> 5]),
     octaveOffset |-> Some(-1), arpeggiator |-> Undefined] }

validatePatch(patch) ==
  /\ {"oscillatorType", "overtoneCount", "attackTime", "releaseTime"}
       \subseteq DOMAIN patch.audio
  /\ patch.audio.oscillatorType \in validOscTypes
  /\ patch.audio.overtoneCount >= 1 /\ patch.audio.overtoneCount <= 20
  /\ patch.audio.attackTime >= 1 /\ patch.audio.attackTime <= 50
  /\ patch.audio.releaseTime >= 1 /\ patch.audio.releaseTime <= 50

\* Two single-oscillator patches for the arpeggiator: one with the README's
\* arpeggiator (interval 200 ms, pattern [0, 4, 7, 12]) and one without any.
ReadmeArp == [interval |-> 2, pattern |-> <<0, 4, 7, 12>>]

ArpPatches ==
  { [audio |-> AudioOf("sine", 1, 1, 1), octaveOffset |-> Undefined, arpeggiator |-> a] :
      a \in {Undefined, Some(ReadmeArp)} }

\* The patches that reach the engine: PatchManager keeps only those that
\* validatePatch accepts (the candidate with harmonic count 0 is dropped).
Patches == {p \in PlainPatches \cup FilterPatches : validatePatch(p)}

(***************************************************************************)
(* AudioParam automation (Web Audio): a timeline of events, and the        *)
(* [[current value]] slot the `value` getter returns, which the render     *)
(* thread refreshes from the timeline.                                     *)
(***************************************************************************)
SetEvent(v, t) == [kind |-> "set", value |-> v, time |-> t]
RampEvent(v, t) == [kind |-> "ramp", value |-> v, time |-> t]

cancelScheduledValues(events, t) == SelectSeq(events, LAMBDA e : e.time < t)

InsertEvent(events, ev) ==
  LET before == SelectSeq(events, LAMBDA e : e.time <= ev.time)
      after == SelectSeq(events, LAMBDA e : e.time > ev.time)
  IN  before \o <<ev>> \o after

setValueAtTime(events, v, t) == InsertEvent(events, SetEvent(v, t))

linearRampToValueAtTime(events, v, t) == InsertEvent(events, RampEvent(v, t))

\* The value the timeline gives at time t; `held` when no event applies yet.
ValueAtTime(events, t, held) ==
  LET past == SelectSeq(events, LAMBDA e : e.time <= t)
      future == SelectSeq(events, LAMBDA e : e.time > t)
      prev == past[Len(past)]
      next == future[1]
  IN  IF Len(future) > 0 /\ next.kind = "ramp" /\ Len(past) > 0
        THEN prev.value +
             ((next.value - prev.value) * (t - prev.time)) \div (next.time - prev.time)
        ELSE IF Len(past) > 0 THEN prev.value ELSE held

\* The timeline without the events that can no longer influence the value at
\* or after time t: of the events up to t only the last one counts, and when
\* nothing is scheduled after it only its value counts.
PruneEvents(events, t) ==
  LET past == SelectSeq(events, LAMBDA e : e.time <= t)
      future == SelectSeq(events, LAMBDA e : e.time > t)
      prev == past[Len(past)]
  IN  IF Len(past) = 0 THEN events
      ELSE IF Len(future) = 0 THEN <<SetEvent(prev.value, t)>>
      ELSE <<prev>> \o future

\* The timeline seen one tick later.
ShiftEvents(events) ==
  [i \in 1..Len(events) |-> [events[i] EXCEPT !.time = @ - 1]]

NewParam(v) == [value |-> v, events |-> <<>>]

\* The instant at which a handler runs (audioCtx.currentTime, Date.now()).
currentTime == 0

\* One tick of the render thread on a parameter.
RenderParam(p) ==
  LET events == ShiftEvents(p.events)
  IN  [value |-> ValueAtTime(events, currentTime, p.value),
       events |-> PruneEvents(events, currentTime)]

(***************************************************************************)
(* The audio graph.  A smoothed parameter (setTargetAtTime) is kept as its *)
(* target; the envelope gain, which is ramped linearly, is kept as a full  *)
(* AudioParam.  reverbGain is counted in 1/(10*CoordScale), lfoFreq and    *)
(* lfoGain in 1/CoordScale.                                                *)
(***************************************************************************)
NoNodes ==
  [present |-> FALSE, envelope |-> NewParam(0), filterFreq |-> 0, filterQ |-> 0,
   reverbGain |-> 0, lfoFreq |-> 0, lfoGain |-> 0, lfoRunning |-> FALSE,
   connected |-> FALSE]

\* An oscillator+gain pair as createOscillator/createGain leave it once it is
\* wired: started, feeding masterGain, modulated by lfoGain, gain 0, and the
\* frequency still at the node's default (harmonic 0: never written).
ZeroGain == [kind |-> "zero", harmonic |-> 0, intensity |-> 0, count |-> 0]
DefaultFreq == [semis |-> 0, harmonic |-> 0]

NewOscillator(type) ==
  [type |-> type, running |-> TRUE, connected |-> TRUE, lfoLinked |-> TRUE,
   gain |-> ZeroGain, freq |-> DefaultFreq]

\* Result of a handler: the engine afterwards, whether the bank was rebuilt,
\* whether an exception reached the caller, the old nodes left alive, and the
\* exceptions its catch blocks swallowed.
Result(E, rebuilt, raisedNow, leaked) ==
  [engine |-> E, rebuilt |-> rebuilt, raised |-> raisedNow, leaked |-> leaked,
   caught |-> 0]

Stopped(o) == [o EXCEPT !.running = FALSE, !.connected = FALSE, !.lfoLinked = FALSE]

\* lfoGain.disconnect(osc.frequency) throws InvalidAccessError when lfoGain
\* is not connected to that parameter.
DisconnectThrows(o) == ~o.lfoLinked

\* Teardown of one old pair.  part_005: stop and both disconnects first, the
\* modulator disconnect alone in a try.
TearDown_part_005(o) == Stopped(o)

\* audio_engine.js: the modulator disconnect in a try, then oscWrapper.stop().
TearDown_audio_engine(o) == Stopped(o)

\* main.js: one try around all four calls, the modulator disconnect first: when
\* it throws, the stop and the two disconnects of that pair are skipped.
TearDown_main(o) == IF DisconnectThrows(o) THEN o ELSE Stopped(o)

\* A teardown that disconnects the pair but never stops its oscillator.
TearDown_withoutStop(v, o) == [o EXCEPT !.connected = FALSE, !.lfoLinked = FALSE]

TearDown(v, o) ==
  CASE v = "part_005" -> TearDown_part_005(o)
    [] v = "audio_engine" -> TearDown_audio_engine(o)
    [] OTHER -> TearDown_main(o)

\* A teardown whose modulator disconnect is outside any try.
TearDownEscapes_unguarded(v, o) == DisconnectThrows(o)

\* Whether the teardown of pair o throws out of the forEach callback: in each
\* revision the one call that can throw, the modulator disconnect, is inside a
\* try with an empty catch.
TearDownEscapes(v, o) == FALSE

Alive(o) == o.running \/ o.lfoLinked \/ o.connected

\* A bank that always has the harmonic count of the defaults.
numOscillators_ofDefaults(E) == audioDefaults.overtoneCount

numOscillators(E) == Max(1, E.currentSettings.overtoneCount)

\* A bank whose new pairs take over the gains of the pairs they replace
\* while the engine is playing.
NewBank_keepingGains(E) ==
  [i \in 1..numOscillators(E) |->
     IF E.isPlaying /\ i <= Len(E.oscillators)
       THEN [NewOscillator(E.currentSettings.oscillatorType)
               EXCEPT !.gain = E.oscillators[i].gain]
       ELSE NewOscillator(E.currentSettings.oscillatorType)]

NewBank(E) ==
  [i \in 1..numOscillators(E) |-> NewOscillator(E.currentSettings.oscillatorType)]

\* A rebuild that also silences the master envelope.
buildOscillators_resettingEnvelope(v, E) ==
  IF E.audioCtx = "null" \/ ~E.nodes.present
    THEN Result(E, FALSE, FALSE, 0)
    ELSE Result([E EXCEPT !.oscillators = NewBank(E),
                          !.nodes.envelope = NewParam(0),
                          !.isPlaying = FALSE],
                TRUE, FALSE, 0)

\* buildOscillators (part_005, main.js) / _rebuildOscillators (audio_engine.js)
buildOscillators(v, E) ==
  IF E.audioCtx = "null"
    THEN Result(E, FALSE, FALSE, 0)
    ELSE IF ~E.nodes.present
      THEN IF v = "audio_engine"
             THEN Result(E, FALSE, FALSE, 0)   \* !this.masterGain: return
             ELSE \* gain.connect(this.nodes.masterGain) with masterGain undefined
                  Result([E EXCEPT !.oscillators = <<>>], FALSE, TRUE, 0)
      ELSE LET n == Len(E.oscillators)
               escaping == {i \in 1..n : TearDownEscapes(v, E.oscillators[i])}
               old == [i \in 1..n |-> TearDown(v, E.oscillators[i])]
               left == Cardinality({i \in 1..n : Alive(old[i])})
           IN  IF escaping # {}
                 THEN \* the forEach stops at the first pair that throws; the
                      \* array is not emptied and no new pair is created
                      LET k == CHOOSE i \in escaping : \A j \in escaping : i <= j
                      IN  Result([E EXCEPT !.oscillators =
                                    [i \in 1..n |-> IF i < k THEN old[i] ELSE E.oscillators[i]]],
                                 FALSE, TRUE, 0)
                 ELSE [Result([E EXCEPT !.oscillators = NewBank(E)], TRUE, FALSE, left)
                         EXCEPT !.caught =
                           Cardinality({i \in 1..n : DisconnectThrows(E.oscillators[i])})]

(***************************************************************************)
(* init.  outcome "ok": the AudioContext and every node are created;       *)
(* outcome "noContext": the AudioContext constructor throws (no audio      *)
(* output); outcome "partWay": the context is stored in this.audioCtx and  *)
(* the next creation call throws, before any node is stored.  part_005 and *)
(* main.js rethrow; audio_engine.js only logs.                             *)
(***************************************************************************)
InitOutcomes == {"ok", "noContext"}

PartialOutcomes == InitOutcomes \cup {"partWay"}

initReverbGain(v, E) == IF v = "main" THEN 0 ELSE E.currentSettings.reverbMix * 10

FreshNodes(v, E) ==
  [present |-> TRUE, envelope |-> NewParam(0),
   filterFreq |-> E.currentSettings.filterCutoff,
   filterQ |-> E.currentSettings.filterQ,
   reverbGain |-> initReverbGain(v, E),
   lfoFreq |-> E.currentSettings.lfoMinFreq * CoordScale,
   lfoGain |-> 0, lfoRunning |-> TRUE, connected |-> TRUE]

init(v, E, outcome) ==
  IF E.audioCtx # "null"
    THEN Result(E, FALSE, FALSE, 0)
    ELSE IF outcome = "noContext"
      THEN Result(E, FALSE, v # "audio_engine", 0)
    ELSE IF outcome = "partWay"
      THEN Result([E EXCEPT !.audioCtx = "running"], FALSE, v # "audio_engine", 0)
      ELSE LET E1 == [E EXCEPT !.audioCtx = "running", !.nodes = FreshNodes(v, E)]
           IN  buildOscillators(v, E1)

(***************************************************************************)
(* applyPatch                                                              *)
(***************************************************************************)
patchOctaveOffset(patch) ==
  IF Has(patch.octaveOffset) THEN Val(patch.octaveOffset) ELSE audioDefaults.octaveOffset

mergeSettings(patch) ==
  Spread(Spread(audioDefaults, patch.audio), [octaveOffset |-> patchOctaveOffset(patch)])

\* audio_engine.js merges the patch's arpeggiator over arpDefaults, and falls
\* back to arpDefaults when the patch has none; the other two revisions store
\* patch.arpeggiator as it is.
mergeArp(v, patch) ==
  IF v = "audio_engine"
    THEN IF Has(patch.arpeggiator)
           THEN Some(Spread(arpDefaults, Val(patch.arpeggiator)))
           ELSE Some(arpDefaults)
    ELSE patch.arpeggiator

\* A retune that also cancels the envelope's schedule and restarts its ramp
\* from the present gain with the new patch's time.
Retune_restartingEnvelope(v, E) ==
  LET p == E.nodes.envelope
      e1 == cancelScheduledValues(p.events, 0)
      e2 == setValueAtTime(e1, p.value, 0)
      e3 == IF E.isPlaying
              THEN linearRampToValueAtTime(e2, GainOne, E.currentSettings.attackTime)
              ELSE linearRampToValueAtTime(e2, 0, E.currentSettings.releaseTime)
  IN  [E EXCEPT !.nodes.envelope.events = e3,
                !.nodes.filterFreq = E.currentSettings.filterCutoff,
                !.nodes.filterQ = E.currentSettings.filterQ,
                !.nodes.lfoFreq = E.currentSettings.lfoMinFreq * CoordScale,
                !.nodes.reverbGain =
                   IF v = "main" THEN @ ELSE E.currentSettings.reverbMix * 10]

Retune(v, E) ==
  [E EXCEPT !.nodes.filterFreq = E.currentSettings.filterCutoff,
            !.nodes.filterQ = E.currentSettings.filterQ,
            !.nodes.lfoFreq = E.currentSettings.lfoMinFreq * CoordScale,
            !.nodes.reverbGain =
               IF v = "main" THEN @ ELSE E.currentSettings.reverbMix * 10]

\* part_005: buildOscillators() is called on every applyPatch.
needsRebuild_part_005(E, patch) == TRUE

\* audio_engine.js: the merged settings against the settings before the merge.
needsRebuild_audio_engine(E, patch) ==
  \/ mergeSettings(patch).overtoneCount # E.currentSettings.overtoneCount
  \/ mergeSettings(patch).oscillatorType # E.currentSettings.oscillatorType

\* main.js: the current settings against the patch's own audio fields.
needsRebuild_main(E, patch) ==
  \/ E.currentSettings.oscillatorType # patch.audio.oscillatorType
  \/ E.currentSettings.overtoneCount # patch.audio.overtoneCount

\* A rebuild test that looks at the waveform kind only.
needsRebuild_kindOnly(v, E, patch) ==
  mergeSettings(patch).oscillatorType # E.currentSettings.oscillatorType

needsRebuild(v, E, patch) ==
  CASE v = "part_005" -> needsRebuild_part_005(E, patch)
    [] v = "audio_engine" -> needsRebuild_audio_engine(E, patch)
    [] OTHER -> needsRebuild_main(E, patch)

\* audio_engine.js, no rebuild: setType on every existing oscillator.
setTypeAll(E) ==
  [E EXCEPT !.oscillators =
     [i \in 1..Len(E.oscillators) |->
        [E.oscillators[i] EXCEPT !.type = E.currentSettings.oscillatorType]]]

\* An applyPatch that lays the patch over the settings in force instead of
\* over the defaults, and keeps the arpeggiator of the previous patch when
\* the new one has none.
applyPatch_overCurrent(v, E, patch) ==
  LET rebuild == needsRebuild(v, E, patch)
      E1 == [E EXCEPT !.currentSettings =
                        Spread(Spread(E.currentSettings, patch.audio),
                               [octaveOffset |->
                                  IF Has(patch.octaveOffset) THEN Val(patch.octaveOffset)
                                  ELSE E.currentSettings.octaveOffset]),
                      !.currentArpPattern =
                        IF Has(patch.arpeggiator) THEN mergeArp(v, patch) ELSE @]
  IN  IF E.audioCtx = "null"
        THEN Result(E1, FALSE, FALSE, 0)
        ELSE IF ~E.nodes.present /\ v # "audio_engine"
          THEN Result(E1, FALSE, TRUE, 0)
          ELSE LET E2 == IF E.nodes.present THEN Retune(v, E1) ELSE E1
               IN  IF rebuild
                     THEN buildOscillators(v, E2)
                     ELSE IF v = "audio_engine"
                            THEN Result(setTypeAll(E2), FALSE, FALSE, 0)
                            ELSE Result(E2, FALSE, FALSE, 0)

applyPatch(v, E, patch) ==
  LET rebuild == needsRebuild(v, E, patch)
      E1 == [E EXCEPT !.currentSettings = mergeSettings(patch),
                      !.currentArpPattern = mergeArp(v, patch)]
  IN  IF E.audioCtx = "null"
        THEN Result(E1, FALSE, FALSE, 0)
        ELSE IF ~E.nodes.present /\ v # "audio_engine"
          THEN Result(E1, FALSE, TRUE, 0)   \* this.nodes.filter is undefined
          ELSE LET E2 == IF E.nodes.present THEN Retune(v, E1) ELSE E1
               IN  IF rebuild
                     THEN buildOscillators(v, E2)
                     ELSE IF v = "audio_engine"
                            THEN Result(setTypeAll(E2), FALSE, FALSE, 0)
                            ELSE Result(E2, FALSE, FALSE, 0)

(***************************************************************************)
(* Hand samples: x and y in [0,1], counted in 1/CoordScale; a hand may be  *)
(* absent.                                                                 *)
(***************************************************************************)
HandCoords == {k * (CoordScale \div HandSteps) : k \in 0..HandSteps}
HandSamples == {Undefined} \cup {Some([x |-> x, y |-> y]) : x \in HandCoords, y \in HandCoords}

Half == CoordScale \div 2

\* The frames fed to update: no hand, or both hands, mirrored.
HandPairs ==
  {<<Undefined, Undefined>>} \cup
  {<<Some([x |-> c, y |-> CoordScale - c]), Some([x |-> CoordScale - c, y |-> c])>> :
      c \in HandCoords}

(***************************************************************************)
(* update                                                                  *)
(***************************************************************************)
\* A display range that counts both end octaves in every revision.
octaveRange_inclusive(v) == endOctave - startOctave + 1

octaveRange(v) ==
  IF v = "main" THEN endOctave - startOctave + 1 ELSE endOctave - startOctave

\* A default of the reverb control that is the patch's reverbMix in every
\* revision.
defaultReverbControl_patchMix(v, E) == E.currentSettings.reverbMix

\* Default of the reverb control when the left hand is absent.
defaultReverbControl(v, E) == IF v = "main" THEN Half ELSE E.currentSettings.reverbMix

\* An arpeggiator test that takes a pattern equal to arpDefaults for no
\* pattern at all.
arpApplies_configuredOnly(v, E) ==
  /\ E.isArpeggiating
  /\ Has(E.currentArpPattern)
  /\ Val(E.currentArpPattern) # arpDefaults

\* An arpeggiator test that ignores the switch: a pattern, once there, is
\* always stepped and read.
arpApplies_ignoringSwitch(v, E) == v = "audio_engine" \/ Has(E.currentArpPattern)

arpApplies(v, E) ==
  E.isArpeggiating /\ (v = "audio_engine" \/ Has(E.currentArpPattern))

\* The arpeggiator step of update: the engine with arpCounter and lastArpTime
\* advanced when the interval has elapsed.
arpAdvance(E, dateNow) ==
  LET arp == Val(E.currentArpPattern)
  IN  IF dateNow - E.lastArpTime >= arp.interval
        THEN [E EXCEPT !.arpCounter = (E.arpCounter + 1) % Len(arp.pattern),
                       !.lastArpTime = dateNow]
        ELSE E

arpSemitones(E) == Val(E.currentArpPattern).pattern[E.arpCounter + 1]

\* pattern[this.arpCounter] as JavaScript reads it: undefined when the counter
\* is not an index of the pattern.
arpRead(E) ==
  IF E.arpCounter < Len(Val(E.currentArpPattern).pattern)
    THEN Some(arpSemitones(E)) ELSE Undefined

\* Pitch in semitones above baseFrequency, counted in 1/CoordScale.
pitchSemis(v, E, pitchControl) ==
  (CoordScale - pitchControl) * (octaveRange(v) * 12)
    + E.currentSettings.octaveOffset * 12 * CoordScale

lfoRate(v, E, vibratoControl) ==
  IF v = "main"
    THEN E.currentSettings.lfoMinFreq * CoordScale
         + (CoordScale - vibratoControl) * E.currentSettings.lfoMaxFreqMultiplier
    ELSE E.currentSettings.lfoMinFreq * CoordScale
         + (CoordScale - vibratoControl)
             * (E.currentSettings.lfoMaxFreqMultiplier - 1)
             * E.currentSettings.lfoMinFreq

lfoDepth(E, vibratoControl) ==
  (CoordScale - vibratoControl) * E.currentSettings.lfoMaxDepthMultiplier

activeOvertones(E, overtoneControl) ==
  1 + ((CoordScale - overtoneControl) * (E.currentSettings.overtoneCount - 1))
        \div CoordScale

\* Gain target of the oscillator with 0-based index i.  main.js: 0.3/sqrt(i+1)
\* when i < activeOvertones, else 0.  The other two revisions: 0.5 for the
\* fundamental, else min(0.5/sqrt(i+1) * intensity^(0.5+0.1 i), 0.5/N), which
\* is 0 exactly when the intensity is 0.  Irrational values stay symbolic.
\* A gain rule that is the threshold rule of main.js in every revision.
gainTarget_thresholdEverywhere(v, E, i, overtoneControl) ==
  IF i < activeOvertones(E, overtoneControl)
    THEN [kind |-> "harm", harmonic |-> i + 1, intensity |-> 0, count |-> 0]
    ELSE ZeroGain

gainTarget(v, E, i, overtoneControl) ==
  IF v = "main"
    THEN IF i < activeOvertones(E, overtoneControl)
           THEN [kind |-> "harm", harmonic |-> i + 1, intensity |-> 0, count |-> 0]
           ELSE ZeroGain
    ELSE IF i = 0
           THEN [kind |-> "fund", harmonic |-> 1, intensity |-> 0, count |-> 0]
           ELSE IF CoordScale - overtoneControl = 0
                  THEN ZeroGain
                  ELSE [kind |-> "over", harmonic |-> i + 1,
                        intensity |-> CoordScale - overtoneControl,
                        count |-> Len(E.oscillators)]

\* A reverb target that is the control itself, without the 0.7 ceiling.
reverbTarget_unscaled(reverbControl) == reverbControl * 10

\* reverbControl * 0.7, in 1/(10*CoordScale).
reverbTarget(reverbControl) == reverbControl * 7

\* update returns at once unless initialised and playing (audio_engine.js:
\* and unless the bank is non-empty).
updateWrites(v, E) ==
  /\ E.audioCtx # "null"
  /\ E.isPlaying
  /\ (v = "audio_engine" => Len(E.oscillators) > 0)

update(v, E, leftHandData, rightHandData, dateNow) ==
  IF ~updateWrites(v, E)
    THEN Result(E, FALSE, FALSE, 0)
    ELSE IF ~E.nodes.present /\ v # "audio_engine"
      THEN Result(E, FALSE, TRUE, 0)   \* this.nodes.reverbGain is undefined
      ELSE
        LET pitchControl == IF Has(leftHandData) THEN Val(leftHandData).y ELSE Half
            reverbControl == IF Has(leftHandData) THEN Val(leftHandData).x
                             ELSE defaultReverbControl(v, E)
            vibratoControl == IF Has(rightHandData) THEN Val(rightHandData).x ELSE Half
            overtoneControl == IF Has(rightHandData) THEN Val(rightHandData).y ELSE Half
            E1 == IF arpApplies(v, E) THEN arpAdvance(E, dateNow) ELSE E
            read == IF arpApplies(v, E) THEN arpRead(E1) ELSE Some(0)
            semis == pitchSemis(v, E, pitchControl) + Val(read) * CoordScale
            E2 == IF E.nodes.present
                    THEN [E1 EXCEPT !.nodes.reverbGain = reverbTarget(reverbControl),
                                    !.nodes.lfoFreq = lfoRate(v, E, vibratoControl),
                                    !.nodes.lfoGain = lfoDepth(E, vibratoControl)]
                    ELSE E1
            bank == [i \in 1..Len(E.oscillators) |->
                       [E.oscillators[i] EXCEPT
                          !.freq = [semis |-> semis, harmonic |-> i],
                          !.gain = gainTarget(v, E, i - 1, overtoneControl)]]
            \* an undefined pattern entry makes the frequency NaN: setFrequency
            \* of audio_engine.js skips it (freq > 0 is false); in part_005 and
            \* main.js setTargetAtTime(NaN) throws at the first oscillator
            mute == [i \in 1..Len(E.oscillators) |->
                       [E.oscillators[i] EXCEPT
                          !.gain = gainTarget(v, E, i - 1, overtoneControl)]]
        IN  IF Has(read)
              THEN Result([E2 EXCEPT !.oscillators = bank], FALSE, FALSE, 0)
              ELSE IF v = "audio_engine"
                THEN Result([E2 EXCEPT !.oscillators = mute], FALSE, FALSE, 0)
                ELSE Result(E2, FALSE, Len(E.oscillators) > 0, 0)

(***************************************************************************)
(* setEnvelopeState: the same in the three revisions.                      *)
(***************************************************************************)
\* A ramp that starts from the level the cancelled schedule was heading to
\* instead of the gain read from the parameter.
startRamp_fromScheduledLevel(E, target, duration, now) ==
  LET p == E.nodes.envelope
      heading == IF Len(p.events) > 0 THEN p.events[Len(p.events)].value ELSE p.value
      e1 == cancelScheduledValues(p.events, now)
      e2 == setValueAtTime(e1, heading, now)
      e3 == linearRampToValueAtTime(e2, target, now + duration)
  IN  [E EXCEPT !.nodes.envelope.events = e3]

\* The cancel and the pin of the present gain without the ramp that follows.
startRamp_holdOnly(E, target, duration, now) ==
  LET p == E.nodes.envelope
      e1 == cancelScheduledValues(p.events, now)
      e2 == setValueAtTime(e1, p.value, now)
  IN  [E EXCEPT !.nodes.envelope.events = e2]

startRamp(E, target, duration, now) ==
  LET p == E.nodes.envelope
      e1 == cancelScheduledValues(p.events, now)
      e2 == setValueAtTime(e1, p.value, now)
      e3 == linearRampToValueAtTime(e2, target, now + duration)
  IN  [E EXCEPT !.nodes.envelope.events = e3]

\* An envelope handler without the isPlaying comparison: every call restarts
\* the ramp towards the requested level.
setEnvelopeState_unguarded(v, E, shouldPlay, now) ==
  IF E.audioCtx = "null" \/ ~E.nodes.present
    THEN Result(E, FALSE, FALSE, 0)
    ELSE Result(startRamp([E EXCEPT !.isPlaying = shouldPlay],
                          IF shouldPlay THEN GainOne ELSE 0,
                          IF shouldPlay THEN E.currentSettings.attackTime
                                        ELSE E.currentSettings.releaseTime,
                          now),
                FALSE, FALSE, 0)

setEnvelopeState(v, E, shouldPlay, now) ==
  IF E.audioCtx = "null" \/ (v = "audio_engine" /\ ~E.nodes.present)
    THEN Result(E, FALSE, FALSE, 0)
    ELSE IF shouldPlay /\ ~E.isPlaying
      THEN IF ~E.nodes.present
             THEN Result([E EXCEPT !.isPlaying = TRUE], FALSE, TRUE, 0)
             ELSE Result(startRamp([E EXCEPT !.isPlaying = TRUE], GainOne,
                                   E.currentSettings.attackTime, now),
                         FALSE, FALSE, 0)
      ELSE IF ~shouldPlay /\ E.isPlaying
        THEN IF ~E.nodes.present
               THEN Result([E EXCEPT !.isPlaying = FALSE], FALSE, TRUE, 0)
               ELSE Result(startRamp([E EXCEPT !.isPlaying = FALSE], 0,
                                     E.currentSettings.releaseTime, now),
                           FALSE, FALSE, 0)
        ELSE Result(E, FALSE, FALSE, 0)

(***************************************************************************)
(* setArpeggiatorState                                                     *)
(***************************************************************************)
setArpeggiatorState(E, isActive) ==
  Result([E EXCEPT !.isArpeggiating = isActive,
                   !.arpCounter = IF isActive THEN @ ELSE 0],
         FALSE, FALSE, 0)

(***************************************************************************)
(* cleanup.  part_005 and main.js null audioCtx and empty nodes;           *)
(* audio_engine.js keeps its references: the context is left closed.       *)
(***************************************************************************)
\* The calls cleanup issues on the Web Audio objects, in program order.  Each
\* pair of the bank is stopped and disconnected; then the fixed nodes are
\* disconnected and the modulator stopped; close() comes last, and only on a
\* context that exists and is not yet closed.
OscCalls(E) ==
  [k \in 1..(2 * Len(E.oscillators)) |->
     [call |-> IF k % 2 = 1 THEN "stop" ELSE "disconnect", on |-> "osc",
      index |-> (k + 1) \div 2]]

NodeCall(call, on) == [call |-> call, on |-> on, index |-> 0]

cleanupCalls(v, E) ==
  LET held == E.nodes.present
      fixed == IF ~held THEN <<>>
               ELSE IF v = "audio_engine"
                 THEN <<NodeCall("disconnect", "nodes"), NodeCall("stop", "lfo"),
                        NodeCall("disconnect", "lfo")>>
                 ELSE <<NodeCall("disconnect", "nodes"), NodeCall("disconnect", "lfo"),
                        NodeCall("stop", "lfo")>>
      closing == IF E.audioCtx \notin {"null", "closed"}
                   THEN <<NodeCall("close", "audioCtx")>> ELSE <<>>
  IN  OscCalls(E) \o fixed \o closing

\* A cleanup whose close() is called on whatever context is held, its
\* rejection uncaught: it raises once the context is no longer running.
cleanup_closeUncaught(v, E) ==
  LET E1 == [E EXCEPT !.oscillators = <<>>, !.isPlaying = FALSE,
                      !.isArpeggiating = FALSE]
      gone == E.audioCtx # "running"
  IN  IF v = "audio_engine"
        THEN Result([E1 EXCEPT !.nodes.connected = FALSE,
                               !.nodes.lfoRunning = FALSE,
                               !.audioCtx = IF @ = "null" THEN "null" ELSE "closed"],
                    FALSE, gone, 0)
        ELSE Result([E1 EXCEPT !.nodes = NoNodes, !.audioCtx = "null"],
                    FALSE, gone, 0)

cleanup(v, E) ==
  LET E1 == [E EXCEPT !.oscillators = <<>>, !.isPlaying = FALSE,
                      !.isArpeggiating = FALSE]
  IN  IF v = "audio_engine"
        THEN Result([E1 EXCEPT !.nodes.connected = FALSE,
                               !.nodes.lfoRunning = FALSE,
                               !.audioCtx = IF @ = "null" THEN "null" ELSE "closed"],
                    FALSE, FALSE, 0)
        ELSE Result([E1 EXCEPT !.nodes = NoNodes, !.audioCtx = "null"],
                    FALSE, FALSE, 0)

(***************************************************************************)
(* HandInput.  A landmark array is a sequence of optional points; landmark *)
(* n of MediaPipe is entry n + 1.                                          *)
(***************************************************************************)
HandRevisions == {"part_002", "hand_input_1", "hand_input_2"}

MinLandmarks == 21
fingerTips == <<8, 12, 16, 20>>
fingerBases == <<5, 9, 13, 17>>

Point(x, y, z) == [x |-> x, y |-> y, z |-> z]

\* landmarks[n]: undefined beyond the end of the array.
Landmark(landmarks, n) == IF n + 1 <= Len(landmarks) THEN landmarks[n + 1] ELSE Undefined

\* Squares of Math.hypot over two and over three coordinates.
Hypot2(a, b) == (a.x - b.x) * (a.x - b.x) + (a.y - b.y) * (a.y - b.y)
Hypot3(a, b) == Hypot2(a, b) + (a.z - b.z) * (a.z - b.z)

\* d1 < d2 * 0.9 and d1 < d2 * 0.7 on the squares of the distances.
Below90(sq1, sq2) == 100 * sq1 < 81 * sq2
Below70(sq1, sq2) == 100 * sq1 < 49 * sq2

\* part_002: the tip nearer the wrist than 0.9 of the base's distance, and
\* nearer its own base than 0.7 of it, in three dimensions.
curled_part_002(tip, base, wrist) ==
  /\ Below90(Hypot3(tip, wrist), Hypot3(base, wrist))
  /\ Below70(Hypot3(tip, base), Hypot3(base, wrist))

\* hand_input.js, first revision: the 0.9 test in three dimensions.
curled_hand_input_1(tip, base, wrist) ==
  Below90(Hypot3(tip, wrist), Hypot3(base, wrist))

\* hand_input.js, second revision: the 0.9 test in the plane (z is ignored).
curled_hand_input_2(tip, base, wrist) ==
  Below90(Hypot2(tip, wrist), Hypot2(base, wrist))

\* A curl test that is the planar one in every revision.
curled_planarOnly(rev, tip, base, wrist) ==
  Below90(Hypot2(tip, wrist), Hypot2(base, wrist))

curled(rev, tip, base, wrist) ==
  CASE rev = "part_002" -> curled_part_002(tip, base, wrist)
    [] rev = "hand_input_1" -> curled_hand_input_1(tip, base, wrist)
    [] OTHER -> curled_hand_input_2(tip, base, wrist)

\* The fingers counted as curled; a finger with a missing tip, base or wrist
\* entry is skipped.
curledFingers(rev, landmarks) ==
  {i \in 1..Len(fingerTips) :
     LET tip == Landmark(landmarks, fingerTips[i])
         base == Landmark(landmarks, fingerBases[i])
         wrist == Landmark(landmarks, 0)
     IN  /\ Has(tip) /\ Has(base) /\ Has(wrist)
         /\ curled(rev, Val(tip), Val(base), Val(wrist))}

\* _isFist(landmarks); the argument is optional (null or undefined).
isFist(rev, landmarks) ==
  IF ~Has(landmarks) \/ Len(Val(landmarks)) < MinLandmarks
    THEN FALSE
    ELSE Cardinality(curledFingers(rev, Val(landmarks))) >= 3

\* Landmark arrays.  The wrist and every finger base are fixed; each of the
\* four finger tips is extended, curled onto the palm, curled in the plane
\* but lifted towards the camera, tucked past the wrist, exactly at 0.9 of
\* the base distance, or missing from the array.
Wrist == Point(30, 40, 0)
Base == Point(30, 30, 0)
Extended == Point(30, 20, 0)
Curled == Point(30, 34, 0)
Lifted == Point(30, 34, 8)
Tucked == Point(30, 46, 0)
Edge == Point(30, 31, 0)

TipPlacements ==
  {Some(Extended), Some(Curled), Some(Lifted), Some(Tucked), Some(Edge), Undefined}

HandOf(wrist, tips) ==
  [n \in 1..MinLandmarks |->
     IF n = 1 THEN wrist
     ELSE IF \E i \in 1..Len(fingerTips) : fingerTips[i] = n - 1
       THEN tips[CHOOSE i \in 1..Len(fingerTips) : fingerTips[i] = n - 1]
       ELSE Some(Base)]

AllTips(tip) == [i \in 1..Len(fingerTips) |-> Some(tip)]

OpenPose == HandOf(Some(Wrist), AllTips(Extended))
FistPose == HandOf(Some(Wrist), AllTips(Curled))

\* The arguments tried on _isFist: null, every array of MinLandmarks points
\* over TipPlacements, a fist without its wrist entry, and a fist cut one
\* point short.
LandmarkInputs ==
  {Undefined}
    \cup {Some(HandOf(Some(Wrist), t)) : t \in [1..Len(fingerTips) -> TipPlacements]}
    \cup {Some(HandOf(Undefined, AllTips(Curled))),
          Some(SubSeq(FistPose, 1, MinLandmarks - 1))}

(***************************************************************************)
(* _processHandResults.  results holds the landmark array of the hand      *)
(* MediaPipe labels 'Left' and of the one it labels 'Right', each          *)
(* optional.  The cooldown is 500 ms, five ticks.                          *)
(***************************************************************************)
gestureCooldown == 5

NoHands == [left |-> Undefined, right |-> Undefined, activeHandsCount |-> 0]

InitHand(rev) ==
  [rev |-> rev, leftHandWasFist |-> FALSE, lastLeftFistOpenTime |-> -GestureAgeCap,
   handPositions |-> NoHands,
   opened |-> FALSE,                \* the last frame opened the left fist
   sinceAccepted |-> GestureAgeCap] \* ticks since the last accepted gesture

\* handCenter = landmarks[9] || landmarks[0]
handCenter(landmarks) ==
  IF Has(Landmark(landmarks, 9)) THEN Landmark(landmarks, 9) ELSE Landmark(landmarks, 0)

handData(rev, landmarks) ==
  [x |-> CoordScale - Val(handCenter(landmarks)).x,
   y |-> Val(handCenter(landmarks)).y,
   isFist |-> isFist(rev, Some(landmarks))]

\* A cooldown test that also passes at exactly gestureCooldown.
cooldownPassed_atBoundary(H, now) == now - H.lastLeftFistOpenTime >= gestureCooldown

\* A cooldown test that always passes.
cooldownPassed_always(H, now) == TRUE

\* currentTime - this.lastLeftFistOpenTime > gestureCooldown
cooldownPassed(H, now) == now - H.lastLeftFistOpenTime > gestureCooldown

\* A timestamp that is refreshed by every opening of the fist, accepted or
\* suppressed.
stampOf_everyOpening(H, opened, cycle, now) ==
  IF opened THEN now ELSE H.lastLeftFistOpenTime

\* lastLeftFistOpenTime after the frame: assigned inside the cooldown test.
stampOf(H, opened, cycle, now) ==
  IF cycle THEN now ELSE H.lastLeftFistOpenTime

processHandResults(H, results, now) ==
  LET count == (IF Has(results.left) THEN 1 ELSE 0)
                 + (IF Has(results.right) THEN 1 ELSE 0)
      leftSeen == Has(results.left) /\ Has(handCenter(Val(results.left)))
      rightSeen == Has(results.right) /\ Has(handCenter(Val(results.right)))
      leftData == handData(H.rev, Val(results.left))
      opened == leftSeen /\ H.leftHandWasFist /\ ~leftData.isFist
      cycle == opened /\ cooldownPassed(H, now)
      processed ==
        [left |-> IF leftSeen
                    THEN Some(Spread(leftData, [cyclePatchGesture |-> cycle]))
                    ELSE Undefined,
         right |-> IF rightSeen THEN Some(handData(H.rev, Val(results.right)))
                   ELSE Undefined,
         activeHandsCount |-> count]
  IN  [hand |-> [H EXCEPT !.leftHandWasFist =
                            IF count = 0 THEN FALSE
                            ELSE IF leftSeen THEN leftData.isFist ELSE @,
                          !.lastLeftFistOpenTime = stampOf(H, opened, cycle, now),
                          !.handPositions = processed,
                          !.opened = opened,
                          !.sinceAccepted = IF cycle THEN 0 ELSE @],
       processed |-> processed]

\* One tick older: the stored Date.now() reading and the time since the last
\* accepted gesture.  Ages beyond GestureAgeCap are not told apart.
AgeHand(H) ==
  [H EXCEPT !.lastLeftFistOpenTime = Max(@ - 1, -GestureAgeCap),
            !.sinceAccepted = Min(@ + 1, GestureAgeCap)]

\* The results MediaPipe delivers: each hand absent, open or a fist.
RawFrames ==
  {[left |-> l, right |-> r] :
     l \in {Undefined, Some(OpenPose), Some(FistPose)},
     r \in {Undefined, Some(OpenPose), Some(FistPose)}}

(***************************************************************************)
(* App (main.js).  start: init, then applyPatch of the current patch; an   *)
(* exception of init ends start before the patch is applied.               *)
(* onHandsUpdate: one processed frame of HandInput.  An exception of a     *)
(* handler ends the frame there.                                           *)
(***************************************************************************)
start(v, E, outcome, patch) ==
  LET r0 == init(v, E, outcome)
      r1 == applyPatch(v, r0.engine, patch)
  IN  IF r0.raised THEN r0
      ELSE [r1 EXCEPT !.rebuilt = r0.rebuilt \/ r1.rebuilt,
                      !.leaked = r0.leaked + r1.leaked,
                      !.caught = r0.caught + r1.caught]

\* The frames of HandInput: no hand, or both hands at mid-screen, the left
\* one with or without the patch-cycle gesture, the right one open or a fist.
Frames ==
  {NoHands} \cup
  {[left |-> Some([x |-> Half, y |-> Half, cyclePatchGesture |-> c]),
    right |-> Some([x |-> Half, y |-> Half, isFist |-> f]),
    activeHandsCount |-> 2] :
      c \in BOOLEAN, f \in BOOLEAN}

\* A callback that stores the snapshot and leaves the engine to a later tick.
onHandsUpdate_snapshotOnly(v, E, hands, nextPatch, now) == Result(E, FALSE, FALSE, 0)

\* A callback that opens the envelope only for the left hand.
onHandsUpdate_envelopeFromLeft(v, E, hands, nextPatch, now) ==
  LET r1 == setArpeggiatorState(E, Has(hands.right) /\ Val(hands.right).isFist)
      r2 == setEnvelopeState(v, r1.engine, Has(hands.left), now)
  IN  IF Has(hands.left)
        THEN update(v, r2.engine, hands.left, hands.right, now)
        ELSE r2

onHandsUpdate(v, E, hands, nextPatch, now) ==
  LET cycle == Has(hands.left) /\ Val(hands.left).cyclePatchGesture
      handsPresent == hands.activeHandsCount > 0
      r0 == IF cycle THEN applyPatch(v, E, nextPatch) ELSE Result(E, FALSE, FALSE, 0)
      r1 == setArpeggiatorState(r0.engine, Has(hands.right) /\ Val(hands.right).isFist)
      r2 == setEnvelopeState(v, r1.engine, handsPresent, now)
      r3 == IF handsPresent
              THEN update(v, r2.engine, hands.left, hands.right, now)
              ELSE Result(r2.engine, FALSE, FALSE, 0)
  IN  IF r0.raised THEN r0
      ELSE [engine |-> IF r2.raised THEN r2.engine ELSE r3.engine,
            rebuilt |-> r0.rebuilt,
            raised |-> r2.raised \/ r3.raised,
            leaked |-> r0.leaked, caught |-> r0.caught]

\* animate: the frame is drawn from HandInput.handPositions and the current
\* patch; the engine is not touched.
animate(v, E, handPositions, now) == Result(E, FALSE, FALSE, 0)

(***************************************************************************)
(* PatchManager, and the custom-patch loader of App.setupUIHandlers.       *)
(* currentPatchIndex is 0-based, as in the source.                         *)
(***************************************************************************)
ManagerRevisions == {"patch_manager_1", "patch_manager_2"}

\* First revision: the four required audio properties are present and the
\* waveform kind is one of the four; no range is checked.
validatePatch_1(patch) ==
  /\ {"oscillatorType", "overtoneCount", "attackTime", "releaseTime"}
       \subseteq DOMAIN patch.audio
  /\ patch.audio.oscillatorType \in validOscTypes

validatePatchOf(rev, patch) ==
  IF rev = "patch_manager_1" THEN validatePatch_1(patch) ELSE validatePatch(patch)

\* The patch loadDefaultPatches leaves in the list.
DefaultPatch ==
  [audio |-> AudioOf("sine", 1, MaxRamp, MaxRamp + 1), octaveOffset |-> Undefined,
   arpeggiator |-> Undefined]

\* defaultPatchCount is a field of the second revision only.
InitManager(rev) ==
  [rev |-> rev, patches |-> <<DefaultPatch>>, currentPatchIndex |-> 0,
   defaultPatchCount |-> 1, alert |-> "none"]

addPatch(M, patchData) ==
  IF ~validatePatchOf(M.rev, patchData)
    THEN [manager |-> M, ok |-> FALSE]
    ELSE [manager |-> [M EXCEPT !.patches = Append(@, patchData)], ok |-> TRUE]

\* deletePatch(index): refused below defaultPatchCount and beyond the end;
\* else the entry is spliced out.  currentPatchIndex is not touched.
deletePatch(M, index) ==
  IF index < M.defaultPatchCount \/ ~(index >= 0 /\ index < Len(M.patches))
    THEN [manager |-> M, ok |-> FALSE]
    ELSE [manager |-> [M EXCEPT !.patches = SubSeq(@, 1, index)
                                             \o SubSeq(@, index + 2, Len(@))],
          ok |-> TRUE]

getCurrentPatch(M) == M.patches[M.currentPatchIndex + 1]

\* selectPatch(index): null, and no change, when the index is out of range.
selectPatch(M, index) ==
  IF index >= 0 /\ index < Len(M.patches)
    THEN [M EXCEPT !.currentPatchIndex = index] ELSE M

\* A next-patch step that stops at the last patch.
selectNextPatch_noWrap(M) ==
  [M EXCEPT !.currentPatchIndex = Min(@ + 1, Len(M.patches) - 1)]

selectNextPatch(M) ==
  [M EXCEPT !.currentPatchIndex = (@ + 1) % Len(M.patches)]

\* The click handler of the load button.  text is the textarea: Undefined
\* when JSON.parse throws, else the parsed patch.  An exception of
\* applyPatch is caught by the same try as the parse error.
loadCustomPatch(v, M, E, text) ==
  IF ~Has(text)
    THEN [manager |-> M, result |-> Result(E, FALSE, FALSE, 0), alert |-> "Invalid JSON"]
    ELSE LET a == addPatch(M, Val(text))
             M1 == selectPatch(a.manager, Len(a.manager.patches) - 1)
             r == applyPatch(v, E, getCurrentPatch(M1))
         IN  IF a.ok
               THEN [manager |-> M1, result |-> [r EXCEPT !.raised = FALSE],
                     alert |-> IF r.raised THEN "Invalid JSON" ELSE "Loaded custom patch"]
               ELSE [manager |-> M, result |-> Result(E, FALSE, FALSE, 0),
                     alert |-> "Invalid patch format"]

\* What is typed into the textarea: a patch that is in order, one without a
\* waveform kind, one with an unknown kind, one with harmonic count 0, one
\* with a negative count, and text that is not JSON.
GoodPatch ==
  [audio |-> AudioOf("sawtooth", MaxOvertones, 1, 1), octaveOffset |-> Undefined,
   arpeggiator |-> Undefined]

NoKindPatch ==
  [audio |-> [overtoneCount |-> 1, attackTime |-> 1, releaseTime |-> 1],
   octaveOffset |-> Undefined, arpeggiator |-> Undefined]

BadKindPatch == [GoodPatch EXCEPT !.audio.oscillatorType = "noise"]

ZeroCountPatch == [GoodPatch EXCEPT !.audio.overtoneCount = 0]

NegativeCountPatch == [GoodPatch EXCEPT !.audio.overtoneCount = -1]

RejectedPatches == {NoKindPatch, BadKindPatch, ZeroCountPatch, NegativeCountPatch}

CustomTexts == {Undefined, Some(GoodPatch)} \cup {Some(p) : p \in RejectedPatches}

(***************************************************************************)
(* LLMService.generatePatch (llm_anthropic_service.js).  One call: the     *)
(* loop over attempt = 1..maxRetries, each attempt one fetch; a response   *)
(* is a rejected fetch, a status that is not ok, a body without a content  *)
(* array, or a content array with or without a tool_use input.  Waits are  *)
(* counted in milliseconds.                                                *)
(***************************************************************************)
maxRetries == 3

InitLLM ==
  [pc |-> "idle", attempt |-> 0, log |-> <<>>, waits |-> <<>>,
   lastError |-> "none", result |-> Undefined, thrown |-> "none"]

Responses ==
  {[kind |-> k, input |-> Undefined] : k \in {"rejected", "notOk", "noContent", "content"}}
    \cup {[kind |-> "content", input |-> Some(p)] : p \in {GoodPatch, ZeroCountPatch}}

\* The error an attempt throws into the catch of the loop; "none" when the
\* attempt returns or continues.
errorOf(L, response) ==
  IF response.kind = "rejected" THEN "fetch failed"
  ELSE IF response.kind = "notOk" THEN "API request failed"
  ELSE IF response.kind = "noContent" THEN "Invalid API response format"
  ELSE IF ~Has(response.input) /\ L.attempt = maxRetries
    THEN "No tool use in API response"
  ELSE "none"

\* generatePatch up to its first fetch.
generatePatch(L, hasKey) ==
  IF ~hasKey
    THEN [L EXCEPT !.pc = "thrown", !.thrown = "LLM service not configured"]
    ELSE [L EXCEPT !.pc = "fetch", !.attempt = 1]

\* The end of the loop body when the attempt did not return: the next
\* attempt, or the throw after the loop.
nextAttempt(L) ==
  IF L.attempt < maxRetries
    THEN [L EXCEPT !.pc = "fetch", !.attempt = @ + 1]
    ELSE [L EXCEPT !.pc = "thrown",
                   !.thrown = IF L.lastError # "none" THEN L.lastError
                              ELSE "Failed to generate valid patch after all retries"]

\* A catch that keeps the first error it saw.
afterResponse_keepingFirstError(L, response) ==
  LET L1 == [L EXCEPT !.log = Append(@, response)]
      e == errorOf(L, response)
      L2 == [L1 EXCEPT !.lastError = IF @ = "none" THEN e ELSE @]
  IN  IF response.kind = "content" /\ Has(response.input)
        THEN [L1 EXCEPT !.pc = "returned", !.result = response.input]
      ELSE IF e = "none" THEN nextAttempt(L1)
      ELSE IF L.attempt < maxRetries THEN [L2 EXCEPT !.pc = "wait"]
      ELSE nextAttempt(L2)

\* The attempt from the settled fetch on: return, continue, or the catch,
\* which stores the error and waits unless this was the last attempt.
afterResponse(L, response) ==
  LET L1 == [L EXCEPT !.log = Append(@, response)]
      e == errorOf(L, response)
      L2 == [L1 EXCEPT !.lastError = e]
  IN  IF response.kind = "content" /\ Has(response.input)
        THEN [L1 EXCEPT !.pc = "returned", !.result = response.input]
      ELSE IF e = "none" THEN nextAttempt(L1)
      ELSE IF L.attempt < maxRetries THEN [L2 EXCEPT !.pc = "wait"]
      ELSE nextAttempt(L2)

\* setTimeout(resolve, 1000 * attempt) has fired.
afterWait(L) == nextAttempt([L EXCEPT !.waits = Append(@, 1000 * L.attempt)])

(***************************************************************************)
(* The state machine.                                                      *)
(***************************************************************************)
InitEngine(v) ==
  [audioCtx |-> "null", nodes |-> NoNodes, oscillators |-> <<>>,
   isPlaying |-> FALSE, isArpeggiating |-> FALSE, arpCounter |-> 0,
   lastArpTime |-> -ArpAgeCap, currentSettings |-> audioDefaults,
   currentArpPattern |-> IF v = "audio_engine" THEN Some(arpDefaults) ELSE Undefined]

\* The graph exists on a running context.
Live == engine.audioCtx = "running" /\ engine.nodes.present

\* The build state of the graph.
BuildState ==
  IF Live THEN "Built" ELSE IF tornDown THEN "TornDown" ELSE "Uninitialized"

\* A handler call.  A call that returns without any effect is a stuttering
\* step, except a call of setEnvelopeState or of start, which is always
\* recorded.
CallEngine(op, r) ==
  /\ engine' = r.engine
  /\ stale' = stale + r.leaked
  /\ last' = IF r.engine # engine \/ r.rebuilt \/ r.raised
                  \/ op \in {"setEnvelopeState", "start"}
               THEN [op |-> op, rebuilt |-> r.rebuilt, raised |-> r.raised,
                     caught |-> r.caught, before |-> BuildState]
               ELSE last
  /\ tornDown' = IF op = "cleanup" THEN (tornDown \/ engine.audioCtx # "null")
                 ELSE IF op = "init" THEN (tornDown /\ r.engine.audioCtx # "running")
                 ELSE tornDown
  /\ UNCHANGED variant

Call(op, r) == CallEngine(op, r) /\ UNCHANGED <<hand, probe, manager, llm>>

NoProbe == [landmarks |-> Undefined, verdict |-> "none"]

InitApp ==
  /\ variant \in Variants
  /\ engine = InitEngine(variant)
  /\ stale = 0
  /\ tornDown = FALSE
  /\ last = [op |-> "none", rebuilt |-> FALSE, raised |-> FALSE, caught |-> 0,
             before |-> "Uninitialized"]
  /\ llm = InitLLM

Init ==
  /\ InitApp
  /\ hand = InitHand("hand_input_2")
  /\ probe = NoProbe
  /\ manager = InitManager("patch_manager_2")

DoInit == \E outcome \in InitOutcomes : Call("init", init(variant, engine, outcome))

DoApplyPatch == \E patch \in Patches : Call("applyPatch", applyPatch(variant, engine, patch))

DoUpdate ==
  \E h \in HandPairs :
     Call("update", update(variant, engine, h[1], h[2], currentTime))

DoSetEnvelopeState ==
  \E shouldPlay \in BOOLEAN :
     Call("setEnvelopeState", setEnvelopeState(variant, engine, shouldPlay, currentTime))

DoSetArpeggiatorState ==
  \E isActive \in BOOLEAN :
     Call("setArpeggiatorState", setArpeggiatorState(engine, isActive))

DoCleanup == Call("cleanup", cleanup(variant, engine))

\* One tick passes: lastArpTime (a Date.now() reading) is one tick older, and
\* the render thread of a running context refreshes the envelope gain.  Ages
\* beyond ArpAgeCap are not told apart.
\* A clock of its own: the passing tick itself takes the arpeggiator step
\* once the interval has elapsed.
Render_steppingArpeggiator(E) ==
  LET E1 == [E EXCEPT !.lastArpTime = Max(@ - 1, -ArpAgeCap)]
      E2 == IF E.isArpeggiating /\ Has(E.currentArpPattern)
               THEN arpAdvance(E1, currentTime) ELSE E1
  IN  IF E.audioCtx = "running" /\ E.nodes.present
        THEN [E2 EXCEPT !.nodes.envelope = RenderParam(@)]
        ELSE E2

Render(E) ==
  LET E1 == [E EXCEPT !.lastArpTime = Max(@ - 1, -ArpAgeCap)]
  IN  IF E.audioCtx = "running" /\ E.nodes.present
        THEN [E1 EXCEPT !.nodes.envelope = RenderParam(@)]
        ELSE E1

TickEngine ==
  /\ engine' = Render(engine)
  /\ last' = IF Render(engine) # engine
               THEN [op |-> "tick", rebuilt |-> FALSE, raised |-> FALSE, caught |-> 0,
                     before |-> BuildState]
               ELSE last
  /\ UNCHANGED <<variant, stale, tornDown>>

Tick == TickEngine /\ UNCHANGED <<hand, probe, manager, llm>>

Next ==
  \/ DoInit
  \/ DoApplyPatch
  \/ DoUpdate
  \/ DoSetEnvelopeState
  \/ DoCleanup
  \/ Tick

Spec == Init /\ [][Next]_vars

(***************************************************************************)
(* The envelope alone, with the audio clock always advancing: the render   *)
(* thread of a running context is driven by the audio hardware and never   *)
(* waits for a handler.                                                    *)
(***************************************************************************)
EnvelopeNext ==
  \/ DoInit
  \/ DoApplyPatch
  \/ DoSetEnvelopeState
  \/ DoCleanup
  \/ Tick

EnvelopeSpec == Init /\ [][EnvelopeNext]_vars /\ WF_vars(Tick)

(***************************************************************************)
(* Teardown errors.  Within the program lfoGain stays connected to every   *)
(* oscillator of the bank, so the modulator disconnect of a rebuild never  *)
(* throws.  ExternalDisconnect is the fault the try/catch of the teardown  *)
(* is written for: the modulator link of one pair of the bank is already   *)
(* gone when the rebuild reaches it (a double disconnect).  Time stands    *)
(* still in this specification.                                            *)
(***************************************************************************)
ExternalDisconnect ==
  /\ engine.audioCtx = "running" /\ engine.nodes.present
  /\ stale < MaxStale
  /\ \A j \in 1..Len(engine.oscillators) : engine.oscillators[j].lfoLinked
  /\ \E i \in 1..Len(engine.oscillators) :
        engine' = [engine EXCEPT !.oscillators[i].lfoLinked = FALSE]
  /\ last' = [op |-> "fault", rebuilt |-> FALSE, raised |-> FALSE, caught |-> 0,
              before |-> BuildState]
  /\ UNCHANGED <<variant, stale, tornDown, hand, probe, manager, llm>>

FaultNext ==
  \/ DoInit
  \/ DoApplyPatch
  \/ DoUpdate
  \/ DoSetEnvelopeState
  \/ DoSetArpeggiatorState
  \/ DoCleanup
  \/ ExternalDisconnect

FaultSpec == Init /\ [][FaultNext]_vars

(***************************************************************************)
(* Teardown and the arpeggiator switch without the audio clock: the        *)
(* handlers that build, silence and tear down the graph, time standing     *)
(* still and no teardown fault injected.                                   *)
(***************************************************************************)
TeardownNext ==
  \/ DoInit
  \/ DoApplyPatch
  \/ DoSetEnvelopeState
  \/ DoSetArpeggiatorState
  \/ DoCleanup

TeardownSpec == Init /\ [][TeardownNext]_vars

(***************************************************************************)
(* The arpeggiator: the engine under the patches of ArpPatches, with the   *)
(* switch, the per-frame update and the passing of time.                   *)
(***************************************************************************)
\* App.initialized: start has run and has not failed.
Started == last.op # "none" /\ ~(last.op = "start" /\ last.raised)

DoStart ==
  /\ ~Started
  /\ \E outcome \in InitOutcomes, patch \in {p \in ArpPatches : validatePatch(p)} :
        Call("start", start(variant, engine, outcome, patch))

DoHandsFrame ==
  /\ Started
  /\ \E hands \in Frames, nextPatch \in {p \in ArpPatches : validatePatch(p)} :
        Call("onHandsUpdate",
             onHandsUpdate(variant, engine, hands, nextPatch, currentTime))

ArpNext ==
  \/ DoStart
  \/ DoHandsFrame
  \/ Tick

ArpSpec == Init /\ [][ArpNext]_vars

(***************************************************************************)
(* Gestures: HandInput feeding App.onHandsUpdate.  Every result of         *)
(* MediaPipe is processed by _processHandResults, whose callback is        *)
(* onHandsUpdate.  The engine is the one main.js imports, audio_engine.js. *)
(***************************************************************************)
GestureInit ==
  /\ InitApp /\ variant = "audio_engine"
  /\ hand \in {InitHand(rev) : rev \in HandRevisions}
  /\ probe = NoProbe
  /\ manager = InitManager("patch_manager_2")

\* PatchManager.selectNextPatch() is consulted only by a frame that carries
\* the patch-cycle gesture.
NextPatches(processed) ==
  IF Has(processed.left) /\ Val(processed.left).cyclePatchGesture
    THEN {p \in ArpPatches : validatePatch(p)}
    ELSE {CHOOSE p \in ArpPatches : validatePatch(p)}

DoResults ==
  /\ Started
  /\ \E results \in RawFrames :
        LET out == processHandResults(hand, results, currentTime)
        IN  /\ hand' = out.hand
            /\ \E nextPatch \in NextPatches(out.processed) :
                  CallEngine("onHandsUpdate",
                             onHandsUpdate(variant, engine, out.processed, nextPatch,
                                           currentTime))
  /\ UNCHANGED <<probe, manager, llm>>

GestureTick == TickEngine /\ hand' = AgeHand(hand) /\ UNCHANGED <<probe, manager, llm>>

GestureNext ==
  \/ DoStart
  \/ DoResults
  \/ GestureTick

GestureSpec == GestureInit /\ [][GestureNext]_vars

(***************************************************************************)
(* Frames: the inference callback and the animation tick, time standing    *)
(* still.  requestAnimationFrame runs animate from App.init on, started or *)
(* not; last records the frames drawn once the app is started.             *)
(***************************************************************************)
DoAnimate ==
  /\ engine' = animate(variant, engine, hand.handPositions, currentTime).engine
  /\ last' = IF Started
               THEN [op |-> "animate", rebuilt |-> FALSE, raised |-> FALSE,
                     caught |-> 0, before |-> BuildState]
               ELSE last
  /\ UNCHANGED <<variant, stale, tornDown, hand, probe, manager, llm>>

FrameNext ==
  \/ DoStart
  \/ DoResults
  \/ DoAnimate

FrameSpec == GestureInit /\ [][FrameNext]_vars

(***************************************************************************)
(* _isFist alone, on every array of LandmarkInputs.                        *)
(***************************************************************************)
FistInit ==
  /\ InitApp /\ variant = "audio_engine"
  /\ hand \in {InitHand(rev) : rev \in HandRevisions}
  /\ probe \in {[landmarks |-> l, verdict |-> "none"] : l \in LandmarkInputs}
  /\ manager = InitManager("patch_manager_2")

Classify ==
  /\ probe.verdict = "none"
  /\ probe' = [probe EXCEPT !.verdict =
                  IF isFist(hand.rev, probe.landmarks) THEN "fist" ELSE "open"]
  /\ UNCHANGED <<variant, engine, stale, tornDown, last, hand, manager, llm>>

FistNext == Classify

FistSpec == FistInit /\ [][FistNext]_vars

(***************************************************************************)
(* The control mapping: update under patches of every shape (harmonic      *)
(* counts 1, 2 and 4 and the 7 of the defaults, both waveform kinds, a     *)
(* patch with its own filter and octave offset, one with its own reverbMix *)
(* of 0.5, one with an arpeggiator), with either hand present or absent    *)
(* and the coordinates on a grid of ControlSteps steps.  Time stands still.*)
(***************************************************************************)
ControlCoords == {(k * CoordScale) \div ControlSteps : k \in 0..ControlSteps}

RichPatch ==
  [audio |-> Spread(AudioOf("square", 4, 1, 1), [reverbMix |-> Half]),
   octaveOffset |-> Some(1), arpeggiator |-> Undefined]

ControlPatches ==
  {p \in Patches \cup ArpPatches \cup {RichPatch} : validatePatch(p)}

\* Every position of one hand, and the hand absent.
ControlSamples ==
  {Undefined} \cup {Some([x |-> x, y |-> y]) : x \in ControlCoords, y \in ControlCoords}

\* The frames fed to update: the left hand on the diagonal at (c, c), the
\* right hand mirrored at (1 - c, c), either one possibly absent.
ControlFrames ==
  {h \in ({Undefined} \cup {Some([x |-> c, y |-> c]) : c \in ControlCoords})
          \X ({Undefined} \cup {Some([x |-> CoordScale - c, y |-> c]) : c \in ControlCoords}) :
     (Has(h[1]) /\ Has(h[2])) => Val(h[1]).y = Val(h[2]).y}

DoApplyControlPatch ==
  \E patch \in ControlPatches : Call("applyPatch", applyPatch(variant, engine, patch))

DoControlUpdate ==
  \E h \in ControlFrames :
     Call("update", update(variant, engine, h[1], h[2], currentTime))

ControlNext ==
  \/ DoInit
  \/ DoApplyControlPatch
  \/ DoSetEnvelopeState
  \/ DoControlUpdate

ControlSpec == Init /\ [][ControlNext]_vars

(***************************************************************************)
(* Patches: App with PatchManager in either revision.  start applies the   *)
(* current patch, a patch button selects and applies a patch of the list,  *)
(* and the load button adds, selects and applies what the textarea holds.  *)
(* The list is capped at MaxPatches.                                       *)
(***************************************************************************)
PatchInit ==
  /\ InitApp
  /\ hand = InitHand("hand_input_2")
  /\ probe = NoProbe
  /\ manager \in {InitManager(rev) : rev \in ManagerRevisions}

DoStartManaged ==
  /\ ~Started
  /\ \E outcome \in InitOutcomes :
        CallEngine("start", start(variant, engine, outcome, getCurrentPatch(manager)))
  /\ UNCHANGED <<hand, probe, manager, llm>>

DoPatchButton ==
  /\ Started
  /\ \E index \in 0..(MaxPatches - 1) :
        /\ index < Len(manager.patches)
        /\ manager' = selectPatch(manager, index)
        /\ CallEngine("applyPatch", applyPatch(variant, engine, manager.patches[index + 1]))
  /\ UNCHANGED <<hand, probe, llm>>

DoLoadCustomPatch ==
  /\ Started
  /\ Len(manager.patches) < MaxPatches
  /\ \E text \in CustomTexts :
        LET out == loadCustomPatch(variant, manager, engine, text)
        IN  /\ manager' = [out.manager EXCEPT !.alert = out.alert]
            /\ CallEngine("loadCustomPatch", out.result)
  /\ UNCHANGED <<hand, probe, llm>>

PatchNext ==
  \/ DoStartManaged
  \/ DoPatchButton
  \/ DoLoadCustomPatch

PatchSpec == PatchInit /\ [][PatchNext]_vars

(***************************************************************************)
(* Pattern switching: applyPatch among patches with a four-entry pattern,  *)
(* a two-entry pattern and none, interleaved with setArpeggiatorState,     *)
(* setEnvelopeState, update and the clock.                                 *)
(***************************************************************************)
ShortArp == [interval |-> 2, pattern |-> <<0, 7>>]

SwitchPatches ==
  {p \in {[audio |-> AudioOf("sine", 1, 1, 1), octaveOffset |-> Undefined,
           arpeggiator |-> a] : a \in {Undefined, Some(ReadmeArp), Some(ShortArp)}} :
     validatePatch(p)}

DoSwitchPatch ==
  \E patch \in SwitchPatches : Call("applyPatch", applyPatch(variant, engine, patch))

DoArpUpdate == Call("update", update(variant, engine, Undefined, Undefined, currentTime))

SwitchNext ==
  \/ DoInit
  \/ DoSwitchPatch
  \/ DoSetArpeggiatorState
  \/ DoSetEnvelopeState
  \/ DoArpUpdate
  \/ Tick

SwitchInit == Init /\ variant = "main"

SwitchSpec == SwitchInit /\ [][SwitchNext]_vars

(***************************************************************************)
(* init that may fail at the start or part-way, followed by the handlers   *)
(* an application calls afterwards.                                        *)
(***************************************************************************)
DoPartialInit ==
  \E outcome \in PartialOutcomes : Call("init", init(variant, engine, outcome))

FailNext ==
  \/ DoPartialInit
  \/ DoApplyPatch
  \/ DoSetEnvelopeState
  \/ DoArpUpdate

FailSpec == Init /\ [][FailNext]_vars

(***************************************************************************)
(* One call of LLMService.generatePatch, with or without an API key.       *)
(***************************************************************************)
DoGeneratePatch ==
  /\ llm.pc = "idle"
  /\ \E hasKey \in BOOLEAN : llm' = generatePatch(llm, hasKey)
  /\ UNCHANGED <<variant, engine, stale, tornDown, last, hand, probe, manager>>

DoResponse ==
  /\ llm.pc = "fetch"
  /\ \E response \in Responses : llm' = afterResponse(llm, response)
  /\ UNCHANGED <<variant, engine, stale, tornDown, last, hand, probe, manager>>

DoWaitElapsed ==
  /\ llm.pc = "wait"
  /\ llm' = afterWait(llm)
  /\ UNCHANGED <<variant, engine, stale, tornDown, last, hand, probe, manager>>

LLMNext ==
  \/ DoGeneratePatch
  \/ DoResponse
  \/ DoWaitElapsed

LLMInit == Init /\ variant = "main"

LLMSpec == LLMInit /\ [][LLMNext]_vars

(***************************************************************************)
(* Patch cycling: main.js with HandInput and a PatchManager that has       *)
(* loaded one to MaxPatches patches, told apart by their octave offset.    *)
(***************************************************************************)
LoadedPatch(i) ==
  [audio |-> AudioOf("sine", 1, 1, 1), octaveOffset |-> Some(i - 1),
   arpeggiator |-> Undefined]

LoadedManager(k) ==
  [InitManager("patch_manager_2") EXCEPT !.patches = [i \in 1..k |-> LoadedPatch(i)],
                                         !.defaultPatchCount = k]

CycleInit ==
  /\ InitApp /\ variant = "main"
  /\ hand = InitHand("hand_input_2")
  /\ probe = NoProbe
  /\ manager \in {LoadedManager(k) : k \in 1..MaxPatches}

\* One result of MediaPipe: _processHandResults, then App.onHandsUpdate, which
\* asks PatchManager for the next patch when the frame carries the gesture.
DoCycleResults ==
  /\ Started
  /\ \E results \in RawFrames :
        LET out == processHandResults(hand, results, currentTime)
            cycle == Has(out.processed.left) /\ Val(out.processed.left).cyclePatchGesture
            M1 == IF cycle THEN selectNextPatch(manager) ELSE manager
        IN  /\ hand' = out.hand
            /\ manager' = M1
            /\ CallEngine("onHandsUpdate",
                          onHandsUpdate(variant, engine, out.processed,
                                        getCurrentPatch(M1), currentTime))
  /\ UNCHANGED <<probe, llm>>

CycleNext ==
  \/ DoStartManaged
  \/ DoCycleResults
  \/ GestureTick

CycleSpec == CycleInit /\ [][CycleNext]_vars

(***************************************************************************)
(* PatchManager alone: any sequence of addPatch, selectPatch,              *)
(* selectNextPatch and deletePatch on a loaded manager, the list kept to   *)
(* MaxPatches + 2 entries.                                                 *)
(***************************************************************************)
DoAddPatch ==
  /\ Len(manager.patches) < MaxPatches + 2
  /\ \E patchData \in {GoodPatch, LoadedPatch(1), ZeroCountPatch} :
        manager' = addPatch(manager, patchData).manager
  /\ UNCHANGED <<variant, engine, stale, tornDown, last, hand, probe, llm>>

DoSelectPatch ==
  /\ \E index \in -1..(MaxPatches + 2) : manager' = selectPatch(manager, index)
  /\ UNCHANGED <<variant, engine, stale, tornDown, last, hand, probe, llm>>

DoSelectNextPatch ==
  /\ manager' = selectNextPatch(manager)
  /\ UNCHANGED <<variant, engine, stale, tornDown, last, hand, probe, llm>>

DoDeletePatch ==
  /\ \E index \in -1..(MaxPatches + 2) : manager' = deletePatch(manager, index).manager
  /\ UNCHANGED <<variant, engine, stale, tornDown, last, hand, probe, llm>>

ManagerNext ==
  \/ DoAddPatch
  \/ DoSelectPatch
  \/ DoSelectNextPatch
  \/ DoDeletePatch

ManagerSpec == CycleInit /\ [][ManagerNext]_vars

(***************************************************************************)
(* Frames that may carry a hand without landmarks: multiHandLandmarks has  *)
(* an entry for it, and landmarks[9] || landmarks[0] is undefined.         *)
(***************************************************************************)
BareHand == SubSeq(OpenPose, 1, 0)

SampleFrames ==
  {[left |-> l, right |-> r] :
     l \in {Undefined, Some(OpenPose), Some(FistPose), Some(BareHand)},
     r \in {Undefined, Some(OpenPose), Some(BareHand)}}

DoSampleResults ==
  /\ Started
  /\ \E results \in SampleFrames :
        LET out == processHandResults(hand, results, currentTime)
            cycle == Has(out.processed.left) /\ Val(out.processed.left).cyclePatchGesture
            M1 == IF cycle THEN selectNextPatch(manager) ELSE manager
        IN  /\ hand' = out.hand
            /\ manager' = M1
            /\ CallEngine("onHandsUpdate",
                          onHandsUpdate(variant, engine, out.processed,
                                        getCurrentPatch(M1), currentTime))
  /\ UNCHANGED <<probe, llm>>

SampleNext ==
  \/ DoStartManaged
  \/ DoSampleResults
  \/ GestureTick

SampleSpec == CycleInit /\ [][SampleNext]_vars

(***************************************************************************)
(* Properties                                                              *)
(***************************************************************************)
\* The events of a timeline that lie after the current instant.
Pending(p) == SelectSeq(p.events, LAMBDA e : e.time > currentTime)

\* A ramp of the parameter began before the current instant and has not ended.
MidRamp(p) ==
  /\ Len(Pending(p)) > 0
  /\ \E i \in 1..Len(p.events) : p.events[i].time < currentTime

\* The envelope state, read off the gain parameter: where the gain is heading
\* while a ramp is pending, where it rests otherwise.
EnvelopeState ==
  LET p == engine.nodes.envelope
      pending == Pending(p)
  IN  IF Len(pending) > 0
        THEN IF pending[Len(pending)].value = GainOne THEN "Attacking" ELSE "Releasing"
        ELSE IF p.value = GainOne THEN "Sustaining"
             ELSE IF p.value = 0 THEN "Idle" ELSE "Held"

\* C1: every envelope ramp that a presence change starts begins, at the
\* instant of the call, from the gain the envelope has at that instant (the
\* value its previous schedule gives there), and runs to 1 on attack and to 0
\* on release; a release that interrupts an attack therefore starts from the
\* partial gain, not from 1 or 0.
C1_RampStartsAtPresentGain ==
  [][(last'.op = "setEnvelopeState" /\ Live /\ engine'.isPlaying # engine.isPlaying)
       => LET before == engine.nodes.envelope
              present == ValueAtTime(before.events, currentTime, before.value)
              after == engine'.nodes.envelope.events
              n == Len(after)
          IN  /\ n >= 2
              /\ after[n - 1] = SetEvent(present, currentTime)
              /\ after[n].kind = "ramp"
              /\ after[n].time > currentTime
              /\ after[n].value = (IF engine'.isPlaying THEN GainOne ELSE 0)
              /\ ValueAtTime(after, currentTime, before.value) = present]_vars

\* A release has just interrupted an attack at a partial gain.
C1_Witness ==
  /\ Live /\ ~engine.isPlaying /\ last.op = "setEnvelopeState"
  /\ LET ev == engine.nodes.envelope.events
         n == Len(ev)
     IN  /\ n >= 2
         /\ ev[n - 1].time = currentTime
         /\ ev[n - 1].value > 0 /\ ev[n - 1].value < GainOne
         /\ ev[n].kind = "ramp" /\ ev[n].value = 0

\* C2: on a live engine a call that asks for the state the envelope is
\* already in or heading to (play while Attacking or Sustaining, stop while
\* Idle or Releasing) changes nothing: not the playing flag, not the ramp in
\* flight, not any other field, and it raises nothing.
C2_RedundantCallsAreNoOps ==
  Live =>
    \A shouldPlay \in BOOLEAN :
       (shouldPlay <=> EnvelopeState \in {"Attacking", "Sustaining"})
         => setEnvelopeState(variant, engine, shouldPlay, currentTime)
              = Result(engine, FALSE, FALSE, 0)

\* An envelope call has just returned and left alone a ramp that began
\* earlier.
C2_Witness ==
  /\ Live /\ last.op = "setEnvelopeState"
  /\ MidRamp(engine.nodes.envelope)
  /\ engine.nodes.envelope.value > 0 /\ engine.nodes.envelope.value < GainOne

\* The transitions of the envelope state machine.
EnvelopeMoves ==
  {<<"Idle", "Attacking">>, <<"Attacking", "Sustaining">>,
   <<"Attacking", "Releasing">>, <<"Sustaining", "Releasing">>,
   <<"Releasing", "Idle">>, <<"Releasing", "Attacking">>}

\* C3: on a live engine, once the envelope has been told to play it reaches
\* gain 1 (Sustaining) unless it is told to stop or the engine is shut down
\* first, and once told to stop it reaches gain 0 (Idle) unless it is told to
\* play or the engine is shut down first; and the envelope state changes
\* only along Idle -> Attacking, Attacking -> Sustaining | Releasing,
\* Sustaining -> Releasing, Releasing -> Idle | Attacking.
C3_EnvelopeSettles ==
  /\ (Live /\ engine.isPlaying)
        ~> (~Live \/ ~engine.isPlaying \/ EnvelopeState = "Sustaining")
  /\ (Live /\ ~engine.isPlaying)
        ~> (~Live \/ engine.isPlaying \/ EnvelopeState = "Idle")
  /\ [][(Live /\ Live' /\ EnvelopeState' # EnvelopeState)
          => <<EnvelopeState, EnvelopeState'>> \in EnvelopeMoves]_vars

\* An attack has run to its end: the clock has just brought the gain to 1.
C3_Witness ==
  /\ Live /\ engine.isPlaying /\ last.op = "tick"
  /\ EnvelopeState = "Sustaining"
  /\ engine.nodes.envelope.events = <<SetEvent(GainOne, currentTime)>>

\* C4 as stated: a patch switch while an envelope ramp is in flight cancels
\* the ramp and restarts it at the current instant from the present gain.
C4_PatchSwitchRestartsRamp ==
  [][(last'.op = "applyPatch" /\ Live /\ MidRamp(engine.nodes.envelope))
       => LET before == engine.nodes.envelope
              present == ValueAtTime(before.events, currentTime, before.value)
              after == engine'.nodes.envelope.events
          IN  /\ \A i \in 1..Len(after) : after[i].time >= currentTime
              /\ \E i \in 1..Len(after) : after[i] = SetEvent(present, currentTime)]_vars

\* C4: a patch switch on a live engine leaves the envelope as it is: the
\* playing flag, the gain and a ramp in flight (its start, end time and
\* target) are unchanged.  The oscillators keep their pitch and gain targets
\* too, unless the switch rebuilds the bank, and then the new pairs start at
\* gain 0 with the pitch never written.  The new patch's attack and release
\* times take effect at the next presence change, whose ramp lasts the
\* attack time of the settings then current when it starts playing and their
\* release time when it stops.
C4_PatchSwitchKeepsRamp ==
  /\ [][(last'.op = "applyPatch" /\ Live)
          => /\ engine'.nodes.envelope = engine.nodes.envelope
             /\ engine'.isPlaying = engine.isPlaying
             /\ IF last'.rebuilt
                  THEN \A i \in 1..Len(engine'.oscillators) :
                          /\ engine'.oscillators[i].gain = ZeroGain
                          /\ engine'.oscillators[i].freq = DefaultFreq
                  ELSE engine'.oscillators = engine.oscillators]_vars
  /\ [][(last'.op = "setEnvelopeState" /\ Live /\ engine'.isPlaying # engine.isPlaying)
          => LET after == engine'.nodes.envelope.events
             IN  after[Len(after)].time =
                   currentTime + (IF engine'.isPlaying
                                    THEN engine.currentSettings.attackTime
                                    ELSE engine.currentSettings.releaseTime)]_vars

\* A patch with another attack time has just been applied in the middle of
\* an attack, and the attack still runs on its old schedule.
C4_Witness ==
  /\ Live /\ engine.isPlaying /\ last.op = "applyPatch" /\ ~last.rebuilt
  /\ engine.oscillators[1].freq # DefaultFreq
  /\ MidRamp(engine.nodes.envelope)
  /\ LET ev == engine.nodes.envelope.events
     IN  /\ Len(ev) = 2
         /\ ev[2].time - ev[1].time # engine.currentSettings.attackTime

BankShapeDiffers(a, b) ==
  a.overtoneCount # b.overtoneCount \/ a.oscillatorType # b.oscillatorType

\* C6: applyPatch rebuilds the bank only when the new patch's harmonic count
\* or waveform kind differs from that of the settings the bank was built
\* from; with the same count and kind the existing pairs stay in place.
C6_RebuildOnlyOnChange ==
  [][(last'.op = "applyPatch" /\ Live)
       => /\ last'.rebuilt
               => BankShapeDiffers(engine.currentSettings, engine'.currentSettings)
          /\ ~BankShapeDiffers(engine.currentSettings, engine'.currentSettings)
               => engine'.oscillators = engine.oscillators]_vars

\* C7: a rebuild leaves no oscillator of an earlier bank running, connected
\* or modulated, and the bank it returns is exactly as many pairs as the
\* harmonic count of the settings, each of the settings' waveform kind,
\* started, at gain zero, feeding the master gain and with its pitch input
\* connected to the modulator.
C7_RebuildReplacesBank ==
  /\ stale = 0
  /\ last.rebuilt =>
       /\ Len(engine.oscillators) = engine.currentSettings.overtoneCount
       /\ \A i \in 1..Len(engine.oscillators) :
             LET o == engine.oscillators[i]
             IN  /\ o.type = engine.currentSettings.oscillatorType
                 /\ o.running /\ o.connected /\ o.lfoLinked
                 /\ o.gain = ZeroGain

\* A patch switch has just rebuilt the bank of a playing engine with another
\* harmonic count and kind than the default bank had.
C7_Witness ==
  /\ Live /\ engine.isPlaying
  /\ last.op = "applyPatch" /\ last.rebuilt
  /\ Len(engine.oscillators) = MaxOvertones
  /\ engine.currentSettings.oscillatorType # audioDefaults.oscillatorType

\* C8: in every state the rebuild of the oscillator bank returns the engine
\* with the same graph nodes (the master envelope's gain and schedule, the
\* filter's cutoff and resonance, reverb and modulator), the same playing
\* flag and the same settings; only the bank differs.
C8_RebuildLeavesEnvelopeAndFilter ==
  LET after == buildOscillators(variant, engine).engine
  IN  /\ after.nodes = engine.nodes
      /\ after.isPlaying = engine.isPlaying
      /\ [after EXCEPT !.oscillators = engine.oscillators] = engine

\* A patch switch has just rebuilt the bank in the middle of an attack and
\* with the filter away from its default.
C8_Witness ==
  /\ Live /\ engine.isPlaying
  /\ last.op = "applyPatch" /\ last.rebuilt
  /\ MidRamp(engine.nodes.envelope)
  /\ engine.nodes.envelope.value > 0
  /\ engine.nodes.filterFreq # audioDefaults.filterCutoff

\* The pairs of the bank whose modulator disconnect will throw.
Faulty == {i \in 1..Len(engine.oscillators) : DisconnectThrows(engine.oscillators[i])}

\* C9: when a patch switch meets a bank in which the modulator disconnect of
\* a pair throws, the error is swallowed: applyPatch raises nothing, the
\* rebuild that a changed harmonic count or kind calls for takes place, it
\* leaves no old pair alive other than pairs whose teardown threw, and the
\* bank afterwards is exactly the settings' harmonic count of new pairs.
C9_TeardownErrorSwallowed ==
  [][(last'.op = "applyPatch" /\ Live /\ Faulty # {})
       => /\ ~last'.raised
          /\ BankShapeDiffers(engine.currentSettings, engine'.currentSettings)
               => last'.rebuilt
          /\ last'.rebuilt
               => /\ stale' - stale <= Cardinality(Faulty)
                  /\ engine'.oscillators = NewBank(engine')
                  /\ Len(engine'.oscillators) = engine'.currentSettings.overtoneCount]_vars

\* A patch switch has just rebuilt a bank and swallowed the error of one
\* pair's teardown on the way.
C9_Witness ==
  /\ Live /\ last.op = "applyPatch" /\ last.rebuilt /\ ~last.raised
  /\ last.caught > 0
  /\ Len(engine.oscillators) = engine.currentSettings.overtoneCount

\* The engine silenced: not playing, envelope at rest at gain 0.
Silenced(E) == [E EXCEPT !.isPlaying = FALSE, !.nodes.envelope = NewParam(0)]

\* Applying a patch to the engine and to the same engine silenced rebuilds
\* in both or in neither, and a rebuilt bank is the one the patch alone
\* determines: its harmonic count of fresh pairs of its waveform kind.
RebuildDeterminedByPatch ==
  \A p \in Patches :
     LET playing == applyPatch(variant, engine, p)
         silent == applyPatch(variant, Silenced(engine), p)
     IN  /\ playing.rebuilt = silent.rebuilt
         /\ playing.engine.oscillators = silent.engine.oscillators
         /\ playing.rebuilt =>
               playing.engine.oscillators =
                 [i \in 1..p.audio.overtoneCount |-> NewOscillator(p.audio.oscillatorType)]

\* C10 as stated: the rebuild is determined by the patch alone, the build
\* state moves only from Uninitialized to Built and from Built to Torn Down,
\* and the bank is rebuilt only in a graph that is built.
C10_BuildStateOneWay ==
  /\ RebuildDeterminedByPatch
  /\ BuildState # last.before
       => <<last.before, BuildState>> \in
            {<<"Uninitialized", "Built">>, <<"Built", "TornDown">>}
  /\ last.rebuilt => BuildState = "Built"

\* C10: the rebuild is determined by the patch alone (a playing and a silent
\* engine get the same bank).  The build state moves from Uninitialized to
\* Built and from Built to Torn Down, but Torn Down is not final: in
\* part_005 and main.js cleanup resets the engine and a later init builds
\* the graph again, and in audio_engine.js, which keeps its closed context,
\* a patch switch after cleanup still rebuilds the bank.  (last.before is the
\* build state in which the last handler was called.)
C10_RebuildDeterministic ==
  /\ RebuildDeterminedByPatch
  /\ BuildState # last.before
       => \/ <<last.before, BuildState>> \in
               {<<"Uninitialized", "Built">>, <<"Built", "TornDown">>}
          \/ /\ <<last.before, BuildState>> = <<"TornDown", "Built">>
             /\ last.op = "init" /\ variant # "audio_engine"
  /\ last.rebuilt
       => \/ BuildState = "Built"
          \/ /\ BuildState = "TornDown" /\ last.before = "TornDown"
             /\ last.op = "applyPatch" /\ variant = "audio_engine"

\* A playing engine whose modulator and oscillators update has written has
\* just had its bank rebuilt by a patch switch.
C10_Witness ==
  /\ Live /\ engine.isPlaying
  /\ last.op = "applyPatch" /\ last.rebuilt
  /\ engine.nodes.lfoGain > 0
  /\ engine.oscillators = NewBank(engine)

(***************************************************************************)
(* C11: teardown stops every oscillator of the bank and the modulator      *)
(* before it closes the audio context, and is idempotent: a second cleanup *)
(* raises no error and leaves the engine as the first one left it.         *)
(***************************************************************************)
C11_TeardownStopsThenReleasesOnce ==
  LET calls == cleanupCalls(variant, engine)
      once == cleanup(variant, engine)
      twice == cleanup(variant, once.engine)
      closeAt == {k \in DOMAIN calls : calls[k].call = "close"}
  IN  /\ ~once.raised /\ ~twice.raised
      /\ twice.engine = once.engine
      /\ once.engine.oscillators = <<>> /\ ~once.engine.nodes.lfoRunning
      /\ once.engine.audioCtx # "running"
      /\ Live => closeAt # {}
      /\ \A k \in closeAt :
            /\ k = Len(calls)
            /\ \A i \in 1..Len(engine.oscillators) :
                  \E j \in 1..(k - 1) :
                     calls[j] = [call |-> "stop", on |-> "osc", index |-> i]
            /\ \E j \in 1..(k - 1) : calls[j] = NodeCall("stop", "lfo")
      /\ \A k \in DOMAIN cleanupCalls(variant, once.engine) :
            cleanupCalls(variant, once.engine)[k].call # "close"

\* A built, playing engine has just been torn down; the next cleanup is the
\* second one.
C11_Witness ==
  /\ last.op = "cleanup" /\ last.before = "Built"
  /\ engine.audioCtx # "running" /\ engine.oscillators = <<>>
  /\ cleanup(variant, engine).engine = engine

(***************************************************************************)
(* C12: the arpeggiator step of update.  With the interval elapsed since   *)
(* the last step the counter advances by one modulo the pattern length and *)
(* the step time becomes the present; otherwise both are kept; either way  *)
(* the entry read is pattern[counter] with the counter an index of the     *)
(* pattern.                                                                *)
(***************************************************************************)
ArpPolled == update(variant, engine, Undefined, Undefined, currentTime).engine

ArpDue == currentTime - engine.lastArpTime >= Val(engine.currentArpPattern).interval

C12_StepRuleAndIndexInRange ==
  (updateWrites(variant, engine) /\ Live /\ arpApplies(variant, engine)) =>
     LET n == Len(Val(engine.currentArpPattern).pattern)
     IN  /\ ArpDue => /\ ArpPolled.arpCounter = (engine.arpCounter + 1) % n
                       /\ ArpPolled.lastArpTime = currentTime
         /\ ~ArpDue => /\ ArpPolled.arpCounter = engine.arpCounter
                        /\ ArpPolled.lastArpTime = engine.lastArpTime
         /\ ArpPolled.arpCounter \in 0..(n - 1)
         /\ Has(arpRead(ArpPolled))

(***************************************************************************)
(* C13: polling faster than the interval does not change the step rate.    *)
(* From the frame that activates the arpeggiator under the README pattern  *)
(* (interval 200 ms, [0, 4, 7, 12]), PollsPerTick polls in each of the     *)
(* next PollSpan ticks (1000 ms) make exactly five step advances, and the  *)
(* indices read are 0, 1, 2, 3, 0 in this order.                           *)
(***************************************************************************)
RECURSIVE ArpReads(_, _, _)
\* The indices read by the polls k, k+1, ... of the run: a tick passes before
\* the first poll of each tick.
ArpReads(v, E, k) ==
  IF k > PollsPerTick * PollSpan THEN <<>>
  ELSE LET E0 == IF (k - 1) % PollsPerTick = 0 THEN Render(E) ELSE E
           E1 == update(v, E0, Undefined, Undefined, currentTime).engine
       IN  <<E1.arpCounter>> \o ArpReads(v, E1, k + 1)

\* The polls of a run at which the index read differs from the one before.
Advances(reads, initial) ==
  {k \in DOMAIN reads : reads[k] # (IF k = 1 THEN initial ELSE reads[k - 1])}

\* The indices read, repetitions of the same index dropped.
RECURSIVE Visits(_)
Visits(reads) ==
  IF Len(reads) <= 1 THEN reads
  ELSE IF reads[1] = reads[2] THEN Visits(Tail(reads))
       ELSE <<reads[1]>> \o Visits(Tail(reads))

\* The arpeggiator is off (its counter at 0) on a playing engine whose patch
\* carries the README pattern.
ArpIdle ==
  /\ Live /\ updateWrites(variant, engine) /\ ~engine.isArpeggiating
  /\ engine.currentArpPattern = Some(ReadmeArp)

C13_FivePollsStepsFromZero ==
  ArpIdle =>
    LET reads == ArpReads(variant, setArpeggiatorState(engine, TRUE).engine, 1)
    IN  /\ Cardinality(Advances(reads, engine.arpCounter)) = 5
        /\ SubSeq(Visits(reads), 1, 5) = <<0, 1, 2, 3, 0>>

(***************************************************************************)
(* C14: switching the arpeggiator off resets the step counter to 0 and     *)
(* writes no frequency, and the first update after it is switched on again *)
(* reads pattern index 0, whatever time has passed since the last step.    *)
(***************************************************************************)
C14_ReactivationReadsIndexZero ==
  (Live /\ updateWrites(variant, engine) /\ Has(engine.currentArpPattern)) =>
    LET off == setArpeggiatorState(engine, FALSE).engine
        on == setArpeggiatorState(off, TRUE).engine
    IN  /\ off.arpCounter = 0
        /\ off.oscillators = engine.oscillators /\ off.nodes = engine.nodes
        /\ update(variant, on, Undefined, Undefined, currentTime).engine.arpCounter = 0

(***************************************************************************)
(* C15 as stated: under a patch that configures no arpeggiator, activating *)
(* the arpeggiator never advances a step and never shifts the pitch.       *)
(***************************************************************************)
\* What applyPatch stores for a patch without an arpeggiator is in place.
NoPatternConfigured ==
  /\ Live /\ updateWrites(variant, engine)
  /\ \E p \in ArpPatches :
        ~Has(p.arpeggiator) /\ engine.currentArpPattern = mergeArp(variant, p)

\* The engine after a poll with the arpeggiator on, and with it off.
PolledOn ==
  update(variant, setArpeggiatorState(engine, TRUE).engine,
         Undefined, Undefined, currentTime).engine

PolledOff ==
  update(variant, setArpeggiatorState(engine, FALSE).engine,
         Undefined, Undefined, currentTime).engine

C15_NoPatternNeverSteps ==
  NoPatternConfigured =>
    /\ PolledOn.arpCounter = engine.arpCounter
    /\ PolledOn.lastArpTime = engine.lastArpTime
    /\ PolledOn.oscillators = PolledOff.oscillators

(***************************************************************************)
(* C15, amended: under a patch that configures no arpeggiator, part_005    *)
(* and main.js hold no pattern, and activation neither steps nor shifts    *)
(* the pitch; audio_engine.js falls back to AppConfig.arpDefaults, and the *)
(* active arpeggiator steps through that pattern and shifts the pitch by   *)
(* the entry it reads.                                                     *)
(***************************************************************************)
C15_NoPatternSkipsOrFallsBack ==
  NoPatternConfigured =>
    IF variant = "audio_engine"
      THEN /\ engine.currentArpPattern = Some(arpDefaults)
           /\ PolledOn.arpCounter =
                 IF currentTime - engine.lastArpTime >= arpDefaults.interval
                   THEN (engine.arpCounter + 1) % Len(arpDefaults.pattern)
                   ELSE engine.arpCounter
           /\ \A i \in 1..Len(engine.oscillators) :
                 PolledOn.oscillators[i].freq.semis =
                   PolledOff.oscillators[i].freq.semis
                     + arpDefaults.pattern[PolledOn.arpCounter + 1] * CoordScale
      ELSE /\ engine.currentArpPattern = Undefined
           /\ PolledOn.arpCounter = engine.arpCounter
           /\ PolledOn.lastArpTime = engine.lastArpTime
           /\ PolledOn.oscillators = PolledOff.oscillators

\* audio_engine.js has just played a frame with the right fist closed under
\* a patch without an arpeggiator: the default pattern has stepped and the
\* pitch is off the unshifted one.
C15_Witness ==
  /\ NoPatternConfigured /\ engine.isArpeggiating
  /\ last.op = "onHandsUpdate"
  /\ variant = "audio_engine"
  /\ engine.arpCounter > 0 /\ engine.oscillators # PolledOff.oscillators

(***************************************************************************)
(* C16 as stated: the arpeggiator steps on elapsed wall-clock time alone,  *)
(* whether or not update is called: while it is active, the last step is   *)
(* never older than the interval.                                          *)
(***************************************************************************)
C16_StepsOnWallClockAlone ==
  (Live /\ arpApplies(variant, engine)) =>
     currentTime - engine.lastArpTime <= Val(engine.currentArpPattern).interval

(***************************************************************************)
(* C16, amended: a step is taken only inside update, that is in a frame    *)
(* with a hand present, on a playing engine with the arpeggiator active,   *)
(* and then only if the interval has elapsed since the last step; the      *)
(* passing of time alone takes no step, however long update is not called. *)
(***************************************************************************)
C16_StepsOnlyInsideUpdate ==
  [][/\ engine'.lastArpTime > engine.lastArpTime =>
          /\ last'.op = "onHandsUpdate"
          /\ engine'.isPlaying /\ arpApplies(variant, engine')
          /\ currentTime - engine.lastArpTime >= Val(engine'.currentArpPattern).interval
          /\ engine'.lastArpTime = currentTime
     /\ last'.op = "tick" => engine'.arpCounter = engine.arpCounter]_vars

\* The arpeggiator is active and the last step is older than the interval:
\* time has passed without a frame.
C16_Witness ==
  /\ Live /\ engine.isPlaying /\ arpApplies(variant, engine)
  /\ last.op = "tick"
  /\ currentTime - engine.lastArpTime > Val(engine.currentArpPattern).interval

(***************************************************************************)
(* C17 as stated: a frame carries the patch-cycle gesture exactly when the *)
(* left fist flag kept from the frame before is set, this frame shows the  *)
(* left hand open, and at least gestureCooldown (500 ms) has passed since  *)
(* the last such event; exactly 500 ms fires.                              *)
(***************************************************************************)
\* The frames that show a left hand.
LeftFrames == {f \in RawFrames : Has(f.left)}

\* The frame carries cyclePatchGesture once _processHandResults has run.
Fires(results) ==
  LET left == processHandResults(hand, results, currentTime).processed.left
  IN  Has(left) /\ Val(left).cyclePatchGesture

\* The frame shows the left hand open.
LeftOpen(results) == ~isFist(hand.rev, results.left)

\* The frame processed last showed the left hand as a fist.
PrevLeftFist ==
  Has(hand.handPositions.left) /\ Val(hand.handPositions.left).isFist

C17_FiresAtCooldownOrLater ==
  \A results \in LeftFrames :
     Fires(results) <=>
       (hand.leftHandWasFist /\ LeftOpen(results)
          /\ hand.sinceAccepted >= gestureCooldown)

(***************************************************************************)
(* C17, amended: a frame carries the patch-cycle gesture exactly when      *)
(* leftHandWasFist is set, the frame shows the left hand open, and more    *)
(* than gestureCooldown (500 ms) has passed since the last accepted        *)
(* gesture: at exactly 500 ms it does not fire.  leftHandWasFist is the    *)
(* fist flag of the last frame that showed the left hand, cleared by a     *)
(* frame without any hand and kept by a frame with the right hand only.    *)
(***************************************************************************)
C17_FiresAfterCooldown ==
  /\ \A results \in LeftFrames :
        Fires(results) <=>
          (hand.leftHandWasFist /\ LeftOpen(results)
             /\ hand.sinceAccepted > gestureCooldown)
  /\ Has(hand.handPositions.left) => (hand.leftHandWasFist <=> PrevLeftFist)
  /\ hand.handPositions.activeHandsCount = 0 => ~hand.leftHandWasFist

\* The frame processed last opened the left fist and was accepted.
C17_Witness ==
  /\ hand.opened /\ Has(hand.handPositions.left)
  /\ Val(hand.handPositions.left).cyclePatchGesture
  /\ hand.lastLeftFistOpenTime = currentTime
  /\ last.op = "onHandsUpdate"

(***************************************************************************)
(* C18 as stated: every opening of the left fist sets the event timestamp  *)
(* to the present, whether or not the cooldown let the event through.      *)
(***************************************************************************)
\* The frame opens the left fist.
Opens(results) == hand.leftHandWasFist /\ LeftOpen(results)

\* lastLeftFistOpenTime once _processHandResults has run on the frame.
StampAfter(results) ==
  processHandResults(hand, results, currentTime).hand.lastLeftFistOpenTime

C18_EveryOpeningStamps ==
  \A results \in LeftFrames :
     Opens(results) => StampAfter(results) = currentTime

(***************************************************************************)
(* C18, amended: the event timestamp is set to the present only by an      *)
(* opening that is accepted; an opening suppressed by the cooldown leaves  *)
(* it as it was and so does not restart the cooldown.                      *)
(***************************************************************************)
C18_OnlyAcceptedOpeningStamps ==
  \A results \in RawFrames :
     StampAfter(results) =
       IF Has(results.left) /\ Fires(results)
         THEN currentTime ELSE hand.lastLeftFistOpenTime

\* The frame processed last opened the left fist within the cooldown: no
\* gesture, and the timestamp still that of the accepted event before it.
C18_Witness ==
  /\ hand.opened /\ Has(hand.handPositions.left)
  /\ ~Val(hand.handPositions.left).cyclePatchGesture
  /\ hand.lastLeftFistOpenTime < currentTime
  /\ currentTime - hand.lastLeftFistOpenTime <= gestureCooldown

(***************************************************************************)
(* C19: whatever frames arrive, two accepted patch-cycle gestures are      *)
(* never closer together than the gesture cooldown: a frame that is        *)
(* accepted comes at least gestureCooldown after the accepted one before.  *)
(***************************************************************************)
C19_AcceptedGesturesApart ==
  \A results \in LeftFrames :
     Fires(results) => hand.sinceAccepted >= gestureCooldown

\* A gesture was accepted less than the cooldown ago and the left hand is a
\* fist again: the opening that follows is not accepted.
C19_Witness ==
  /\ hand.leftHandWasFist
  /\ hand.sinceAccepted > 0 /\ hand.sinceAccepted < gestureCooldown
  /\ \E results \in LeftFrames : Opens(results) /\ ~Fires(results)

(***************************************************************************)
(* C20 as stated: _isFist returns true exactly when the array has 21       *)
(* points and at least 3 of the 4 non-thumb fingers have a planar          *)
(* tip-to-wrist distance below 0.9 of the base-to-wrist distance.          *)
(***************************************************************************)
\* The array handed to _isFist is complete enough to be examined.
ProbeComplete ==
  /\ Has(probe.landmarks)
  /\ Len(Val(probe.landmarks)) >= MinLandmarks
  /\ Has(Landmark(Val(probe.landmarks), 0))

ProbeTip(i) == Landmark(Val(probe.landmarks), fingerTips[i])

\* The fingers of the probe whose tip is present and, in the plane, nearer
\* the wrist than 0.9 of the base's distance.
PlanarCurls ==
  {i \in 1..Len(fingerTips) :
     /\ Has(ProbeTip(i))
     /\ 100 * Hypot2(Val(ProbeTip(i)), Wrist) < 81 * Hypot2(Base, Wrist)}

C20_FistIffThreePlanarCurls ==
  probe.verdict # "none" =>
    (probe.verdict = "fist" <=> (ProbeComplete /\ Cardinality(PlanarCurls) >= 3))

(***************************************************************************)
(* C20, amended: _isFist returns true exactly when the array has 21        *)
(* points and a wrist entry and at least 3 of the 4 non-thumb fingers      *)
(* count as curled, a finger with a missing entry never counting.  What    *)
(* counts as curled depends on the revision: in the second revision of     *)
(* hand_input.js the planar 0.9 test; in the first the same test with the  *)
(* depth coordinate included; in part_002 the three-dimensional 0.9 test   *)
(* and, besides, the tip nearer its own base than 0.7 of the base-to-wrist *)
(* distance.  In every revision four tips curled onto the palm give true,  *)
(* a fully extended hand gives false, and null, a short array or a missing *)
(* wrist give false.                                                       *)
(***************************************************************************)
\* The tip placements each revision counts as curled.
CurledIn(rev) ==
  CASE rev = "part_002" -> {Some(Curled)}
    [] rev = "hand_input_1" -> {Some(Curled), Some(Tucked)}
    [] OTHER -> {Some(Curled), Some(Tucked), Some(Lifted)}

C20_FistByRevision ==
  probe.verdict # "none" =>
    (probe.verdict = "fist" <=>
       /\ ProbeComplete
       /\ Cardinality({i \in 1..Len(fingerTips) : ProbeTip(i) \in CurledIn(hand.rev)}) >= 3)

\* The first revision of hand_input.js has judged a hand with three tips
\* curled in the plane but lifted towards the camera: not a fist.
C20_Witness ==
  /\ probe.verdict = "open" /\ hand.rev = "hand_input_1"
  /\ ProbeComplete
  /\ Cardinality({i \in 1..Len(fingerTips) : ProbeTip(i) = Some(Lifted)}) >= 3

(***************************************************************************)
(* C21: after a rebuild for a patch of harmonic count N (1..20) and any    *)
(* waveform kind, one update on the playing engine writes exactly N        *)
(* gain/frequency pairs, and the frequency written to the i-th pair        *)
(* (1-based) is i times the pitch, the frequency written to the first.     *)
(***************************************************************************)
\* The engine after applyPatch(patch), the arpeggiator switched to isActive
\* and the envelope opened: the state update(hands) finds in a frame.
Playing(E, isActive) ==
  setEnvelopeState(variant, setArpeggiatorState(E, isActive).engine, TRUE,
                   currentTime).engine

\* Pair i of the bank carries the targets update writes for the pitch
\* `semis`: harmonic i of it, and the gain of index i - 1.
Written(E, bank, i, semis, overtoneControl) ==
  /\ bank[i].freq = [semis |-> semis, harmonic |-> i]
  /\ bank[i].gain = gainTarget(variant, E, i - 1, overtoneControl)

C21_UpdateWritesEveryHarmonic ==
  Live =>
    \A patch \in ControlPatches, h \in HandPairs, isActive \in BOOLEAN :
       LET r == applyPatch(variant, engine, patch)
           E == Playing(r.engine, isActive)
           u == update(variant, E, h[1], h[2], currentTime)
           bank == u.engine.oscillators
           N == patch.audio.overtoneCount
           overtoneControl == IF Has(h[2]) THEN Val(h[2]).y ELSE Half
       IN  r.rebuilt =>
             /\ N \in 1..20
             /\ ~u.raised
             /\ Len(bank) = N
             /\ \A i \in 1..N :
                   /\ bank[i].type = patch.audio.oscillatorType
                   /\ Written(E, bank, i, bank[1].freq.semis, overtoneControl)

\* update has written the bank of the largest patch rebuilt for the other
\* waveform kind: every pair carries its own harmonic of one pitch.
C21_Witness ==
  /\ Live /\ last.op = "update"
  /\ Len(engine.oscillators) = MaxOvertones
  /\ \A i \in 1..MaxOvertones :
        /\ engine.oscillators[i].type = "sawtooth"
        /\ engine.oscillators[i].freq.harmonic = i
        /\ engine.oscillators[i].freq.semis = engine.oscillators[1].freq.semis

(***************************************************************************)
(* C22 as stated: with activeHarmonics = 1 + floor((1 - rightHand.y) *     *)
(* (harmonicCount - 1)), which lies in 1..harmonicCount, update gives      *)
(* every pair of 0-based index >= activeHarmonics the gain target 0 and    *)
(* every lower index a positive one, and keeps every oscillator.           *)
(***************************************************************************)
\* The right hand at mid-width and at every height of the grid.
RightAt(y) == Some([x |-> Half, y |-> y])

activeHarmonics(N, y) == 1 + ((CoordScale - y) * (N - 1)) \div CoordScale

\* The bank after update(no left hand, right hand at height y) on the
\* playing engine, the arpeggiator off.
BankAfter(y) ==
  update(variant, Playing(engine, FALSE), Undefined, RightAt(y), currentTime)
    .engine.oscillators

Silent(pair) == pair.gain.kind = "zero"

\* The oscillators of the bank are the ones update found, still running.
BankKept(bank) ==
  /\ Len(bank) = Len(engine.oscillators)
  /\ \A i \in 1..Len(bank) :
        /\ bank[i].running = engine.oscillators[i].running
        /\ bank[i].connected = engine.oscillators[i].connected
        /\ bank[i].type = engine.oscillators[i].type

C22_SilencedFromActiveHarmonics ==
  Live =>
    \A y \in ControlCoords :
       LET N == engine.currentSettings.overtoneCount
           bank == BankAfter(y)
       IN  /\ activeHarmonics(N, y) \in 1..N
           /\ BankKept(bank)
           /\ \A i \in 1..Len(bank) : Silent(bank[i]) <=> i - 1 >= activeHarmonics(N, y)

(***************************************************************************)
(* C22, amended: update keeps every oscillator of the bank and only sets   *)
(* gain targets.  In main.js activeOvertones = 1 + floor((1 -              *)
(* rightHand.y) * (overtoneCount - 1)) lies in 1..overtoneCount (count 4:  *)
(* y = 0 gives 4, y = 1 gives 1); every pair of 0-based index >=           *)
(* activeOvertones gets gain target 0 and every lower index a positive     *)
(* one.  In part_005 and audio_engine.js there is no such threshold: the   *)
(* fundamental always gets a positive target, and every overtone gets a    *)
(* positive target that fades with the hand, 0 exactly when rightHand.y is *)
(* 1.                                                                      *)
(***************************************************************************)
C22_SilencedByRevision ==
  Live =>
    \A y \in ControlCoords :
       LET N == engine.currentSettings.overtoneCount
           bank == BankAfter(y)
       IN  /\ activeHarmonics(N, y) \in 1..N
           /\ activeHarmonics(4, 0) = 4 /\ activeHarmonics(4, CoordScale) = 1
           /\ BankKept(bank)
           /\ \A i \in 1..Len(bank) :
                 Silent(bank[i]) <=>
                   IF variant = "main" THEN i - 1 >= activeHarmonics(N, y)
                   ELSE i > 1 /\ y = CoordScale

\* part_005 or audio_engine.js has updated a bank of four with the right
\* hand at mid-height: the fourth pair, beyond the threshold of main.js,
\* sounds.
C22_Witness ==
  /\ Live /\ last.op = "update" /\ variant # "main"
  /\ Len(engine.oscillators) = 4
  /\ activeHarmonics(4, Half) = 2
  /\ engine.oscillators[4].gain.kind = "over"
  /\ engine.oscillators[4].gain.intensity = CoordScale - Half

(***************************************************************************)
(* C23 as stated: the semitone offset update derives from leftHand.y is    *)
(* non-increasing in y over [0,1], is 0 at y = 1, and at y = 0 is          *)
(* totalDisplaySemitones = (endOctave - startOctave + 1) * 12.             *)
(***************************************************************************)
LeftAt(y) == Some([x |-> Half, y |-> y])

\* The semitone offset (in 1/CoordScale) that update(left hand at height y,
\* no right hand) adds to the patch's own pitch: the pitch written to the
\* fundamental, less the patch's octave offset.  The arpeggiator is off.
SemitoneOffset(y) ==
  update(variant, Playing(engine, FALSE), LeftAt(y), Undefined, currentTime)
      .engine.oscillators[1].freq.semis
    - engine.currentSettings.octaveOffset * 12 * CoordScale

totalDisplaySemitones == (endOctave - startOctave + 1) * 12

PitchNonIncreasing ==
  \A y1 \in ControlCoords, y2 \in ControlCoords :
     y1 <= y2 => SemitoneOffset(y1) >= SemitoneOffset(y2)

C23_PitchSpansInclusiveRange ==
  (Live /\ Len(engine.oscillators) > 0) =>
    /\ PitchNonIncreasing
    /\ SemitoneOffset(CoordScale) = 0
    /\ SemitoneOffset(0) = totalDisplaySemitones * CoordScale

(***************************************************************************)
(* C23, amended: the semitone offset is non-increasing in leftHand.y over  *)
(* [0,1] and is 0 at y = 1; at y = 0 it is the top of the range, which is  *)
(* (endOctave - startOctave + 1) * 12 semitones in main.js and             *)
(* (endOctave - startOctave) * 12 semitones in part_005 and                *)
(* audio_engine.js.                                                        *)
(***************************************************************************)
C23_PitchSpansRangeOfRevision ==
  (Live /\ Len(engine.oscillators) > 0) =>
    /\ PitchNonIncreasing
    /\ SemitoneOffset(CoordScale) = 0
    /\ SemitoneOffset(0) =
          IF variant = "main" THEN totalDisplaySemitones * CoordScale
          ELSE (endOctave - startOctave) * 12 * CoordScale

\* part_005 or audio_engine.js has written the pitch for the left hand at
\* the top of the frame: two octaves above the patch's own pitch, not three.
C23_Witness ==
  /\ Live /\ last.op = "update" /\ variant # "main"
  /\ Len(engine.oscillators) > 0
  /\ ~engine.isArpeggiating
  /\ engine.oscillators[1].freq.harmonic = 1
  /\ engine.oscillators[1].freq.semis
        - engine.currentSettings.octaveOffset * 12 * CoordScale
       = (endOctave - startOctave) * 12 * CoordScale

(***************************************************************************)
(* C24: with the left hand present the reverb target update writes is      *)
(* leftHand.x * 0.7: exactly 0.7 at x = 1, and never above 0.7 for any x   *)
(* in [0,1].  (Targets are counted in 1/(10*CoordScale): 0.7 is            *)
(* 7*CoordScale.)                                                          *)
(***************************************************************************)
\* The reverb target after update(left hand at width x, no right hand).
ReverbAfter(x) ==
  update(variant, Playing(engine, FALSE), Some([x |-> x, y |-> Half]), Undefined,
         currentTime).engine.nodes.reverbGain

C24_ReverbIsSevenTenthsOfX ==
  Live =>
    /\ \A x \in ControlCoords :
          /\ 10 * ReverbAfter(x) = 7 * (x * 10)
          /\ ReverbAfter(x) <= 7 * CoordScale
    /\ ReverbAfter(CoordScale) = 7 * CoordScale

\* update has written the reverb target for the left hand at the right edge
\* of the frame: 0.7.
C24_Witness ==
  /\ Live /\ last.op = "update"
  /\ engine.nodes.reverbGain = 7 * CoordScale

(***************************************************************************)
(* C25 as stated: update never fails when a hand is absent and writes a    *)
(* complete target set.  With the left hand absent it writes what it       *)
(* writes for a left hand at pitch control 0.5 whose reverb control is the *)
(* patch's own reverbMix; with the right hand absent, what it writes for a *)
(* right hand with vibrato and harmonic-activation controls 0.5.           *)
(***************************************************************************)
\* update on the playing engine, the arpeggiator off.
Mapped(left, right) ==
  update(variant, Playing(engine, FALSE), left, right, currentTime)

\* The hand that stands for an absent one, given its two controls.
Neutral(x, y) == Some([x |-> x, y |-> y])

\* The samples tried for the hand that is present (or absent too).
OtherHand == {Undefined, Neutral(0, CoordScale), Neutral(CoordScale, 0)}

C25_AbsentLeftUsesPatchReverb ==
  Live =>
    \A other \in OtherHand :
       /\ ~Mapped(Undefined, other).raised
       /\ ~Mapped(other, Undefined).raised
       /\ Mapped(Undefined, other)
            = Mapped(Neutral(engine.currentSettings.reverbMix, Half), other)
       /\ Mapped(other, Undefined) = Mapped(other, Neutral(Half, Half))

(***************************************************************************)
(* C25, amended: update never fails when a hand is absent and writes a     *)
(* complete target set.  With the left hand absent the pitch control is    *)
(* 0.5 and the reverb control is the patch's own reverbMix in part_005 and *)
(* audio_engine.js and 0.5 in main.js, so that the reverb target is 0.7    *)
(* times reverbMix, respectively 0.35; with the right hand absent the      *)
(* vibrato control and the harmonic-activation control are both 0.5.       *)
(***************************************************************************)
C25_AbsentHandDefaultsByRevision ==
  Live =>
    \A other \in OtherHand :
       LET mix == engine.currentSettings.reverbMix
           reverbControl == IF variant = "main" THEN Half ELSE mix
       IN  /\ ~Mapped(Undefined, other).raised
           /\ ~Mapped(other, Undefined).raised
           /\ Mapped(Undefined, other) = Mapped(Neutral(reverbControl, Half), other)
           /\ Mapped(Undefined, other).engine.nodes.reverbGain = 7 * reverbControl
           /\ Mapped(other, Undefined) = Mapped(other, Neutral(Half, Half))
           /\ \A i \in 1..Len(engine.oscillators) :
                 Mapped(Undefined, Undefined).engine.oscillators[i].freq.harmonic = i

\* main.js has updated a bank of two with the left hand absent and the
\* right hand at the top of the frame, under a patch whose reverbMix is not
\* 0.5: mid pitch, both pairs sounding, reverb target 0.35.
C25_Witness ==
  /\ Live /\ last.op = "update" /\ variant = "main"
  /\ engine.currentSettings.reverbMix # Half
  /\ engine.nodes.reverbGain = 7 * Half
  /\ Len(engine.oscillators) = 2
  /\ engine.oscillators[2].gain.kind = "harm"
  /\ engine.oscillators[1].freq.semis
        - engine.currentSettings.octaveOffset * 12 * CoordScale
       = Half * (endOctave - startOctave + 1) * 12

(***************************************************************************)
(* C26: a patch with a missing or invalid waveform kind or a non-positive  *)
(* harmonic count is rejected and the rejection is reported (the loader    *)
(* raises the alert 'Invalid patch format'), and the previously active     *)
(* patch stays active: the patch list, the selected index, the engine's    *)
(* settings and its oscillator bank are unchanged.                         *)
(***************************************************************************)
C26_BadPatchRejectedAndReported ==
  Started =>
    \A bad \in RejectedPatches :
       LET out == loadCustomPatch(variant, manager, engine, Some(bad))
       IN  /\ ~addPatch(manager, bad).ok
           /\ out.alert = "Invalid patch format"
           /\ out.manager = manager
           /\ out.result.engine = engine

(***************************************************************************)
(* C27: applyPatch(p) replaces the patch settings as a whole.  Afterwards  *)
(* the settings and the arpeggiator are what applyPatch(p) leaves on an    *)
(* engine that never had a patch: every audio field p does not give holds  *)
(* the default of AppConfig.audioDefaults, an octave offset p does not     *)
(* give is the default one, and an arpeggiator p does not give is the one  *)
(* the engine starts with; nothing of the previous patch remains.          *)
(***************************************************************************)
C27_PatchReplacesSettings ==
  \A patch \in ControlPatches :
     LET after == applyPatch(variant, engine, patch).engine
         fresh == applyPatch(variant, InitEngine(variant), patch).engine
     IN  /\ after.currentSettings = fresh.currentSettings
         /\ after.currentArpPattern = fresh.currentArpPattern
         /\ \A k \in DOMAIN audioDefaults \ (DOMAIN patch.audio \cup {"octaveOffset"}) :
               after.currentSettings[k] = audioDefaults[k]
         /\ \A k \in DOMAIN patch.audio : after.currentSettings[k] = patch.audio[k]
         /\ ~Has(patch.octaveOffset) =>
               after.currentSettings.octaveOffset = audioDefaults.octaveOffset
         /\ ~Has(patch.arpeggiator) =>
               after.currentArpPattern = InitEngine(variant).currentArpPattern

\* A patch without filter settings or octave offset has just replaced, with
\* no rebuild, the patch with octave offset -1 under which the pitch in the
\* bank was written: the settings are back at the defaults.
C27_Witness ==
  /\ Live /\ last.op = "applyPatch" /\ ~last.rebuilt
  /\ Len(engine.oscillators) = 1
  /\ engine.oscillators[1].freq.harmonic = 1
  /\ engine.oscillators[1].freq.semis < 0
  /\ engine.currentSettings.octaveOffset = audioDefaults.octaveOffset
  /\ engine.currentSettings.filterCutoff = audioDefaults.filterCutoff
  /\ engine.currentSettings.filterQ = audioDefaults.filterQ

(***************************************************************************)
(* C28: when the AudioContext cannot be created, init on an engine without *)
(* a context reports the failure to its caller (it throws), and so does    *)
(* App.start, which calls it; neither completes normally.                  *)
(***************************************************************************)
C28_InitFailureReported ==
  engine.audioCtx = "null" =>
    /\ init(variant, engine, "noContext").raised
    /\ \A patch \in Patches : start(variant, engine, "noContext", patch).raised

(***************************************************************************)
(* C29 as stated: the targets update writes depend only on the latest hand *)
(* snapshot and the active patch.  Running update twice on one snapshot    *)
(* ends with the targets of running it once, and an update on snapshot s2  *)
(* ends with the same targets whether or not an update on an earlier       *)
(* snapshot s1 ran some ticks before it.                                   *)
(***************************************************************************)
RECURSIVE Later(_, _)
\* The engine n ticks later, no handler running in between.
Later(E, n) == IF n = 0 THEN E ELSE Later(Render(E), n - 1)

Polled(E, s) == update(variant, E, s[1], s[2], currentTime).engine

\* The targets held by the graph: reverb, vibrato rate and depth, and the
\* frequency and gain of every pair.
Targets(E) ==
  [reverbGain |-> E.nodes.reverbGain, lfoFreq |-> E.nodes.lfoFreq,
   lfoGain |-> E.nodes.lfoGain,
   freqs |-> [i \in 1..Len(E.oscillators) |-> E.oscillators[i].freq],
   gains |-> [i \in 1..Len(E.oscillators) |-> E.oscillators[i].gain]]

\* The same without the frequencies.
TargetsButPitch(E) == [Targets(E) EXCEPT !.freqs = <<>>]

\* update on s2 ends with the same targets with and without an update on
\* s1, n ticks earlier.
SkipUnnoticed(s1, s2, n) ==
  Targets(Polled(Later(Polled(engine, s1), n), s2))
    = Targets(Polled(Later(engine, n), s2))

TwiceAsOnce(s) ==
  Targets(Polled(Polled(engine, s), s)) = Targets(Polled(engine, s))

C29_SkippedUpdateUnnoticed ==
  (Live /\ engine.isPlaying) =>
    \A s1 \in HandPairs, s2 \in HandPairs, n \in 0..ArpAgeCap :
       SkipUnnoticed(s1, s2, n) /\ TwiceAsOnce(s2)

(***************************************************************************)
(* C29, amended: while the arpeggiator is switched off, the targets update *)
(* writes depend only on the latest snapshot and the active patch: running *)
(* it twice, or skipping an earlier update, ends with the same targets.    *)
(* While the arpeggiator is on this still holds for the reverb, vibrato    *)
(* and gain targets, and for two updates at the same instant; but the      *)
(* frequencies follow the arpeggiator position, which advances by at most  *)
(* one step per call of update, so skipped updates are skipped steps.      *)
(***************************************************************************)
C29_SkipUnnoticedButForArpeggio ==
  (Live /\ engine.isPlaying) =>
    \A s1 \in HandPairs, s2 \in HandPairs, n \in 0..ArpAgeCap :
       /\ TwiceAsOnce(s2)
       /\ SkipUnnoticed(s1, s2, 0)
       /\ TargetsButPitch(Polled(Later(Polled(engine, s1), n), s2))
             = TargetsButPitch(Polled(Later(engine, n), s2))
       /\ ~engine.isArpeggiating => SkipUnnoticed(s1, s2, n)

\* The engine is playing and arpeggiating, an arpeggiator step is due, and
\* an update run now changes the pitch that a later update will write.
C29_Witness ==
  /\ Live /\ engine.isPlaying /\ last.op = "tick"
  /\ engine.isArpeggiating
  /\ \E s \in HandPairs, n \in 1..ArpAgeCap :
        /\ Has(s[1])
        /\ ~SkipUnnoticed(s, s, n)

(***************************************************************************)
(* C30 as stated: the inference callback only replaces the hand snapshot   *)
(* and runs the gesture classifier; no step of it changes the engine, and  *)
(* every change of the engine after start is made by the animation tick.   *)
(***************************************************************************)
C30_CallbackLeavesEngineAlone ==
  [][(engine' # engine) => last'.op \in {"start", "animate"}]_vars

(***************************************************************************)
(* C30, amended: the inference callback replaces the hand snapshot, runs   *)
(* the gesture classifier and, in the same call, performs the synthesis    *)
(* writes (applyPatch on the patch-cycle gesture, setArpeggiatorState,     *)
(* setEnvelopeState, update).  The animation tick only draws from the      *)
(* snapshot: it never changes the engine, and every change of the engine   *)
(* after start is made inside the inference callback, which leaves the     *)
(* envelope open and the arpeggiator switch set from the frame it carried. *)
(***************************************************************************)
C30_CallbackWritesEngine ==
  [][/\ (engine' # engine) => last'.op \in {"start", "onHandsUpdate"}
     /\ (last'.op = "animate" /\ last' # last) => (engine' = engine /\ hand' = hand)
     /\ (last'.op = "onHandsUpdate" /\ last' # last) =>
           \E results \in RawFrames :
              /\ hand' = processHandResults(hand, results, currentTime).hand
              /\ hand'.handPositions
                   = processHandResults(hand, results, currentTime).processed
     /\ (hand' # hand /\ Live /\ hand'.handPositions.activeHandsCount > 0) =>
           /\ engine'.isPlaying
           /\ engine'.isArpeggiating
                = (Has(hand'.handPositions.right)
                   /\ Val(hand'.handPositions.right).isFist)]_vars

\* The inference callback has just delivered a frame with hands and, in the
\* same call, opened the envelope and written the pitch to the bank.
C30_Witness ==
  /\ Live /\ last.op = "onHandsUpdate"
  /\ hand.handPositions.activeHandsCount > 0
  /\ engine.isPlaying
  /\ Len(engine.oscillators) > 0
  /\ engine.oscillators[1].freq.harmonic = 1


\* The manager after n calls of selectNextPatch.
RECURSIVE Cycled(_, _)
Cycled(M, n) == IF n = 0 THEN M ELSE selectNextPatch(Cycled(M, n - 1))

\* The frame of this step carried an accepted fist-open gesture.
GestureAccepted == hand.sinceAccepted > 0 /\ hand'.sinceAccepted = 0

(***************************************************************************)
(* C31: each accepted left-hand fist-open gesture advances the selected    *)
(* patch by exactly one position, wrapping from the last to the first, and *)
(* applies that patch to the engine; no other frame and no tick of the     *)
(* clock moves the selection; and with K patches loaded, K gestures return *)
(* to the starting patch having visited every patch once.                  *)
(***************************************************************************)
C31_GestureAdvancesPatchByOne ==
  [][LET K == Len(manager.patches)
     IN  /\ GestureAccepted =>
               /\ manager'.currentPatchIndex = (manager.currentPatchIndex + 1) % K
               /\ manager'.patches = manager.patches
               /\ Live => engine'.currentSettings = mergeSettings(getCurrentPatch(manager'))
         /\ ~GestureAccepted => manager' = manager
         /\ Cycled(manager, K).currentPatchIndex = manager.currentPatchIndex
         /\ {Cycled(manager, j).currentPatchIndex : j \in 1..K} = 0..(K - 1)]_vars

\* The third gesture with three patches loaded has wrapped to the first
\* patch, which is the one the engine now plays.
C31_Witness ==
  /\ Live /\ Len(manager.patches) = MaxPatches
  /\ hand.sinceAccepted = 0
  /\ manager.currentPatchIndex = 0
  /\ engine.currentSettings.octaveOffset = 0


(***************************************************************************)
(* C32: under every interleaving of applyPatch, setArpeggiatorState and    *)
(* update, whenever update reads the pattern the step index is within      *)
(* [0, length of the active pattern) and the entry read is defined, also   *)
(* right after a switch from a longer pattern to a shorter one.            *)
(***************************************************************************)
C32_ArpIndexWithinActivePattern ==
  (updateWrites(variant, engine) /\ Live /\ arpApplies(variant, engine)) =>
     LET polled == update(variant, engine, Undefined, Undefined, currentTime)
     IN  /\ polled.engine.arpCounter < Len(Val(engine.currentArpPattern).pattern)
         /\ Has(arpRead(polled.engine))
         /\ ~polled.raised


(***************************************************************************)
(* C33: while the engine is initialised, after every inference callback    *)
(* the playing flag equals (activeHandsCount > 0) of the frame it          *)
(* processed, and stays so until the next callback; a callback whose frame *)
(* has no hand writes no target of update.                                 *)
(***************************************************************************)
C33_PlayingIffHandsPresent ==
  [][/\ (Started /\ engine.audioCtx # "null" /\ engine.nodes.present)' =>
          (engine'.isPlaying = (hand'.handPositions.activeHandsCount > 0))
     /\ (Started /\ hand'.handPositions.activeHandsCount = 0) =>
          Targets(engine') = Targets(engine)]_vars

\* A frame with the right hand alone has opened the envelope and update has
\* written the bank; and a later frame without hands has closed it again.
C33_Witness ==
  /\ Live /\ last.op = "onHandsUpdate"
  /\ hand.handPositions.activeHandsCount = 1 /\ ~Has(hand.handPositions.left)
  /\ engine.isPlaying
  /\ engine.oscillators[1].freq.harmonic = 1


(***************************************************************************)
(* C34: in every processed inference result, activeHandsCount > 0 implies  *)
(* that the left or the right hand sample is there.                        *)
(***************************************************************************)
C34_CountImpliesSample ==
  hand.handPositions.activeHandsCount > 0 =>
     (Has(hand.handPositions.left) \/ Has(hand.handPositions.right))


(***************************************************************************)
(* C35: a frame in which the left hand is not observed resets left-hand    *)
(* gesture tracking: the first frame in which the left hand is back fires  *)
(* no patch-cycle event, whether the frame before it had no hands at all   *)
(* or only the right hand.                                                 *)
(***************************************************************************)
C35_NoEventWhenLeftReappears ==
  [][(~Has(hand.handPositions.left) /\ Has(hand'.handPositions.left)) =>
        ~Val(hand'.handPositions.left).cyclePatchGesture]_vars


(***************************************************************************)
(* C36: after any sequence of addPatch, selectPatch, selectNextPatch and   *)
(* deletePatch, currentPatchIndex is an index of the patch list, so that   *)
(* getCurrentPatch returns a patch, and the default patches are all still  *)
(* at the head of the list.                                                *)
(***************************************************************************)
C36_CurrentIndexValid ==
  /\ manager.currentPatchIndex >= 0
  /\ manager.currentPatchIndex < Len(manager.patches)
  /\ Len(manager.patches) >= manager.defaultPatchCount
  /\ \A i \in 1..manager.defaultPatchCount : manager.patches[i] = LoadedPatch(i)


(***************************************************************************)
(* C37: a failed init leaves the engine uninitialised.  Whenever the graph *)
(* is missing, a further init is not skipped but builds it, and            *)
(* applyPatch, update and setEnvelopeState called in that state do not     *)
(* throw.                                                                  *)
(***************************************************************************)
C37_FailedInitLeavesUninitialised ==
  ~engine.nodes.present =>
     /\ init(variant, engine, "ok").engine.nodes.present
     /\ \A patch \in Patches : ~applyPatch(variant, engine, patch).raised
     /\ ~update(variant, engine, Undefined, Undefined, currentTime).raised
     /\ \A shouldPlay \in BOOLEAN :
           ~setEnvelopeState(variant, engine, shouldPlay, currentTime).raised


\* The attempt i of the call returned the patch: its response has a
\* tool_use input.
Succeeded(i) == llm.log[i].kind = "content" /\ Has(llm.log[i].input)

\* The attempt i threw into the catch of the loop and was not the last one
\* allowed: the attempts followed by a wait.
FailedEarly(i) == llm.log[i].kind # "content" /\ i < maxRetries

(***************************************************************************)
(* C38: generatePatch makes at most maxRetries (3) requests; it returns    *)
(* the patch of the first attempt whose response carries a tool-use input  *)
(* and makes no request after it; it waits 1000 ms x attempt only between  *)
(* attempts, after an attempt that threw; and when every attempt has       *)
(* failed it throws the error of the last one.                             *)
(***************************************************************************)
C38_GeneratePatchRetriesBounded ==
  LET n == Len(llm.log)
      waited == {i \in 1..n : FailedEarly(i) /\ ~(i = n /\ llm.pc = "wait")}
  IN  /\ n <= maxRetries
      /\ llm.pc \in {"fetch", "wait"} => (n < maxRetries /\ llm.attempt <= maxRetries)
      /\ \A i \in 1..n : Succeeded(i) =>
            (i = n /\ llm.pc = "returned" /\ llm.result = llm.log[i].input)
      /\ llm.pc = "returned" => (n >= 1 /\ Succeeded(n))
      /\ Len(llm.waits) = Cardinality(waited)
      /\ {llm.waits[j] : j \in 1..Len(llm.waits)} = {1000 * i : i \in waited}
      /\ (llm.pc = "thrown" /\ n = 0) => llm.thrown = "LLM service not configured"
      /\ (llm.pc = "thrown" /\ n > 0) =>
            /\ n = maxRetries
            /\ llm.thrown = (IF llm.log[n].kind = "rejected" THEN "fetch failed"
                              ELSE IF llm.log[n].kind = "notOk" THEN "API request failed"
                              ELSE IF llm.log[n].kind = "noContent"
                                THEN "Invalid API response format"
                              ELSE "No tool use in API response")

\* Three requests, each failed, the first by a rejected fetch and the last
\* by a malformed body: two waits, and the last error is the one thrown.
C38_Witness ==
  /\ llm.pc = "thrown" /\ Len(llm.log) = maxRetries
  /\ llm.log[1].kind = "rejected" /\ llm.log[maxRetries].kind = "noContent"
  /\ llm.waits = <<1000, 2000>>
  /\ llm.thrown = "Invalid API response format"

====
